---- MODULE Spec2Model ----
(***************************************************************************)
(* Serving and caching engine of SyntaX: the single-flight Coalescer, the  *)
(* L1 record cache (RedisCache) and the CacheManager's get_or_fetch with   *)
(* stale-while-revalidate, as asyncio tasks on one event loop.            *)
(*                                                                         *)
(* One action is one event-loop step: the code a task runs between two     *)
(* suspension points.  A task that finishes wakes the tasks awaiting it    *)
(* through call_soon, so each awaiter resumes in a later step of its own.  *)
(***************************************************************************)
EXTENDS Integers, Sequences, FiniteSets, TLC

\* ---------------------------------------------------------------- bounds
NumCallers == 3         \* tasks that call Coalescer.do directly
NumReqs == 2            \* tasks that call get_or_fetch
NumSearch == 1          \* tasks that call search_with_typesense_fallback
MaxNow == 60            \* the clock stops advancing here
TickStep == 30          \* seconds the clock advances in one Tick
MaxIds == 5             \* most tweet ids an L2 search returns
NumFetch == 2           \* _fetch closures that call _get_client
MaxMint == 3            \* TokenSets create_token_set ever returns
MaxPoolNow == 3602      \* the token pool's clock stops advancing here
MaxAdds == 2            \* TokenSets direct callers hand to add_token
PoolTickStep == 1801    \* seconds the pool's clock advances in one PoolTick
NumAccts == 2           \* accounts the AccountPool is loaded with
NumAcctReqs == 2        \* requests on accounts that are in flight at once
MaxAcquires == 4        \* calls of AccountPool.acquire in one run
SessionsPerAccount == 2         \* sessions_per_account of prewarm_all
MAX_SESSIONS_PER_ACCOUNT == 1   \* the environment's MAX_SESSIONS_PER_ACCOUNT
NumSessReqs == 2        \* _fetch closures holding a pooled session at once
MaxSessAcquires == 4    \* calls of SessionPool.acquire in one run
PrewarmCount == 2       \* count of session_pool.prewarm
SESSION_POOL_SIZE == 1  \* the environment's SESSION_POOL_SIZE
NumGen == 2             \* threads calling the transaction-id generator
MaxEvents == 3          \* analytics events handed to the ClickHouse writer

\* ------------------------------------------------------ program constants
SWR_THRESHOLD == 30     \* CacheConfig.SWR_THRESHOLD
TTL_PROFILE == 60       \* CacheConfig.TTL_PROFILE, the ttl get_user passes
CONNECT_TIMEOUT == 3    \* CacheConfig.CONNECT_TIMEOUT, redis socket_timeout
TTL_SEARCH == 60        \* CacheConfig.TTL_SEARCH
TTL_TWEET == 1800       \* CacheConfig.TTL_TWEET
GUEST_TOKEN_TTL == 3600         \* TOKEN_CONFIG["guest_token_ttl"]
MAX_REQUESTS_PER_TOKEN == 400   \* TOKEN_CONFIG["max_requests_per_token"]
REPLENISH_TARGET == 10          \* target of _replenish_tokens
COOLDOWN_429 == 900             \* seconds AccountPool.release adds on a 429
COOLDOWN_403 == 3600            \* seconds AccountPool.release adds on a 403
TXN_TTL == 7200                 \* TransactionIDGenerator._ttl

Callers == 1..NumCallers
Reqs == 1..NumReqs
Searchers == 1..NumSearch
Procs == Callers \cup Reqs \cup Searchers
Keys == {"profile:v1:a", "profile:v1:b"}     \* keys handed to Coalescer.do
CacheKeys == {"profile:v1:a"}                \* keys handed to get_or_fetch
NoTask == 0

VARIABLES
    in_flight,   \* Coalescer._in_flight: key -> task registered (NoTask: absent)
    task,        \* task[t]: the asyncio.Task of Coalescer._run created by request t
    req,         \* req[r]: the request task r running do / get_or_fetch
    swr,         \* swr[r]: the detached _swr_refresh task spawned by request r
    l1,          \* l1[k]: what the Redis server holds under key k
    connected,   \* RedisCache.connected (self._redis is not None)
    now,         \* time.time()
    nbuilds,     \* number of fetch_fn() invocations so far (the build counter)
    ts_available,  \* TypesenseCache.available
    ch,            \* ClickHouseWriter: available, _query_buffer, _tweet_buffer
    index_tasks,   \* number of typesense.index_tweets tasks created so far
    key_req,       \* the two requests whose cache keys are compared
    key_out,       \* key_out[i]: the cache key built for key_req[i] (NoKey: not yet)
    pool,          \* the guest token pool: backend, _tokens, Redis set and hashes
    token_sets,    \* token_sets[c]: the TokenSet object c (created_at, request_count)
    minted,        \* number of TokenSets create_token_set has returned
    fetch,         \* fetch[u]: the _fetch closure u of a handler and its client
    pool_now,      \* time.time() as the token pool sees it
    mem_pool,      \* an InMemoryTokenPool driven by direct callers
    redis_pool,    \* a TokenPool (Redis) driven by the same calls
    lent,          \* TokenSets the callers took and have not handed back
    last_call,     \* the last pool call and what either pool answered
    retired,       \* TokenSets handed back expired or exhausted
    accounts,      \* AccountPool._accounts: the Account objects
    acct_index,    \* AccountPool._index
    acct_now,      \* time.time() as the account pool sees it
    acct_req,      \* acct_req[r]: the request on an account in slot r
    acct_sess,     \* the sessions made for accounts, in order of creation
    acquired,      \* number of AccountPool.acquire calls made so far
    last_acquire,  \* the last AccountPool.acquire call and its answer
    last_release,  \* the last AccountPool.release call
    proxy_urls,    \* ProxyManager._proxies: the proxy URLs configured
    buckets,       \* SessionPool._buckets: proxy key -> deque of sessions
    sessions,      \* the sessions of the SessionPool's users, by creation
    sess_req,      \* sess_req[r]: the _fetch closure in slot r and its session
    sess_acquired, \* number of SessionPool.acquire calls made so far
    shut_down,     \* lifespan has run session_pool.close_all()
    txn,           \* _txn_generator: _ct, _initialized_at, _ready, its clock
    gen,           \* gen[t]: thread t in generate or get_session_cookies
    writer         \* the ClickHouseWriter, its flush task and its close()

search_vars == <<ts_available, ch, index_tasks>>
serve_vars == <<in_flight, task, req, swr, l1, connected, now, nbuilds,
                ts_available, ch, index_tasks>>
key_vars == <<key_req, key_out>>
pool_vars == <<pool, token_sets, minted, fetch, pool_now>>
\* What the serving actions never touch.
caller_vars == <<mem_pool, redis_pool, lent, last_call, retired>>
acct_vars == <<accounts, acct_index, acct_now, acct_req, acct_sess,
              acquired, last_acquire, last_release>>
\* What the direct callers of the token pools never touch, besides the
\* serving engine and the cache keys.
sess_vars == <<proxy_urls, buckets, sessions, sess_req, sess_acquired,
               shut_down>>
txn_vars == <<txn, gen>>
other_vars == <<acct_vars, sess_vars, txn_vars, writer>>
rest_vars == <<caller_vars, other_vars>>
\* What the serving actions never touch.
ext_vars == <<key_vars, pool_vars, rest_vars>>
\* What the actions of the token pool never touch.
nonpool_vars == <<serve_vars, key_vars, rest_vars>>
vars == <<serve_vars, ext_vars>>

\* ------------------------------------------------- Python and JSON values
\* A build returns a dict; n identifies the build that produced it.
PyDict(n) == [tag |-> "dict", n |-> n, co |-> FALSE]
\* The pair (result, was_coalesced) that Coalescer.do returns.
PyTuple(n, co) == [tag |-> "tuple", n |-> n, co |-> co]
NoVal == [tag |-> "none", n |-> 0, co |-> FALSE]

\* orjson.dumps: dict -> object; tuple and list -> array.
Dumps(v) ==
    [tag |-> IF v.tag \in {"tuple", "list"} THEN "array"
             ELSE IF v.tag = "dict" THEN "object" ELSE "null",
     n |-> v.n, co |-> v.co]

\* orjson.loads: object -> dict; array -> list.
Loads(j) ==
    [tag |-> IF j.tag = "array" THEN "list"
             ELSE IF j.tag = "object" THEN "dict" ELSE "none",
     n |-> j.n, co |-> j.co]

\* -------------------------------------------------------------- records
Finished == {"ok", "failed", "cancelled"}
InFlight == {"l1_get", "do_wait", "l1_set"}    \* a call that has not returned

NoTaskRec == [state |-> "none", key |-> "", num |-> 0, cancel |-> FALSE]

\* A Redis command of RedisCache.get / RedisCache.set on the wire.
NoOp == [kind |-> "none", st |-> "none", at |-> 0,
         has |-> FALSE, data |-> Dumps(NoVal), stored_at |-> 0]

IdleReq == [pc |-> "idle", key |-> "", fresh |-> FALSE, via |-> "",
            orig |-> FALSE, awaiting |-> NoTask,
            data |-> NoVal, layer |-> "", exc |-> "none",
            must_cancel |-> FALSE, ext_cancelled |-> FALSE,
            spawned |-> FALSE, op |-> NoOp,
            late_for |-> {}, overlap |-> {}, waited |-> FALSE,
            seen |-> 0, got |-> 0,
            cursor |-> "None", l2 |-> FALSE, ids |-> 0, hyd |-> 0,
            next_cursor |-> "None"]

NoSwr == [state |-> "none", kind |-> "", key |-> "", num |-> 0, op |-> NoOp,
          data |-> NoVal, next_cursor |-> "None"]

NoEntry == [has |-> FALSE, data |-> Dumps(NoVal), stored_at |-> 0,
            expires_at |-> 0, writer |-> 0]

\* ------------------------------------------------------------ RedisCache
\* RedisCache.set: envelope = {"data": data, "stored_at": time.time()},
\* raw = orjson.dumps(envelope), then the SET command is sent.
RedisSetOp(data) ==
    [kind |-> "set", st |-> "sent", at |-> now,
     has |-> TRUE, data |-> Dumps(data), stored_at |-> now]

\* RedisCache.get: the GET command is sent.
RedisGetOp ==
    [kind |-> "get", st |-> "sent", at |-> now,
     has |-> FALSE, data |-> Dumps(NoVal), stored_at |-> 0]

\* ------------------------------------------------------- search: values
None == "None"
\* The cursor query parameter of /v1/search: absent, empty, or a page token.
Cursors == {None, "", "c1"}

\* cursor or ""
CursorOrEmpty(c) == IF c = None THEN "" ELSE c

\* not cursor
NotCursor(c) == c = None \/ c = ""

\* make_key("search", query, product, str(count), str(cursor or "")) for one
\* fixed (query, product, count): the digest depends on the joined parts only.
SearchKey(c) ==
    IF CursorOrEmpty(c) = "" THEN "search:v1:d0" ELSE "search:v1:d1"

\* make_key("tweet", tid)
TweetKey(i) == "tweet:v1:" \o ToString(i)

SearchKeys == {SearchKey(c) : c \in Cursors}
TweetKeys == {TweetKey(i) : i \in 1..MaxIds}
L1Keys == Keys \cup SearchKeys \cup TweetKeys

\* ------------------------------------------------------------- cache keys
\* Request parameters the key-building code receives.
Usernames == {"Bob", "bob", "12"}                  \* /v1/users/{username}
UserIds == {"12", "7"}                             \* /v1/users/id/{user_id}
Queries == {"a", "a|Top|20|z"}                     \* q of /v1/search
Products == {"Top", "Latest"}                      \* product of /v1/search
Counts == {20}                                     \* count of /v1/search
KeyCursors == {None, "", "z|Top|20|"}              \* cursor of /v1/search

\* str.lower() on the letters the usernames use.
LowerChar(c) == IF c = "B" THEN "b" ELSE c
RECURSIVE Lower(_)
Lower(s) ==
    IF Len(s) = 0 THEN ""
    ELSE LowerChar(SubSeq(s, 1, 1)) \o Lower(SubSeq(s, 2, Len(s)))

\* "|".join(str(p) for p in parts)
RECURSIVE Join(_)
Join(parts) ==
    IF Len(parts) = 0 THEN ""
    ELSE IF Len(parts) = 1 THEN parts[1]
    ELSE parts[1] \o "|" \o Join(Tail(parts))

\* hashlib.sha1(raw.encode()).hexdigest()[:16], as a digest without
\* collisions: equal digests exactly for equal raw strings.
Sha1Hex16(raw) == "sha1<" \o raw \o ">"

\* make_key(prefix, *parts)
make_key(prefix, parts) ==
    LET raw == Join(parts)
    IN  IF Len(parts) > 1 THEN prefix \o ":v1:" \o Sha1Hex16(raw)
        ELSE prefix \o ":v1:" \o raw

\* The requests of the three endpoints, each with its arguments.
KeyRequests ==
    {[ep |-> "get_user", args |-> <<u>>] : u \in Usernames}
    \cup {[ep |-> "get_user_by_rest_id", args |-> <<i>>] : i \in UserIds}
    \cup {[ep |-> "search", args |-> <<q, p, n, c>>] :
            q \in Queries, p \in Products, n \in Counts, c \in KeyCursors}

\* The cache key each endpoint builds for its request.
CacheKeyOf(rq) ==
    IF rq.ep = "get_user" THEN make_key("profile", <<Lower(rq.args[1])>>)
    ELSE IF rq.ep = "get_user_by_rest_id"
    THEN make_key("profile", <<rq.args[1]>>)
    ELSE make_key("search", <<rq.args[1], rq.args[2], ToString(rq.args[3]),
                               CursorOrEmpty(rq.args[4])>>)

NoKey == "NoKey"
NoKeyRequest == [ep |-> "none", args |-> <<>>]
NoKeyWork ==
    /\ key_req = <<NoKeyRequest, NoKeyRequest>>
    /\ key_out = <<NoKey, NoKey>>

\* ------------------------------------------------------ guest token pool
Fetchers == 1..NumFetch
Creds == 1..MaxMint
NoToken == 0

\* TokenSet.created_at and request_count of object c.
NewTokenSet(t) == [created_at |-> t, request_count |-> 0]

\* age > TOKEN_CONFIG["guest_token_ttl"]
Expired(c) == pool_now - token_sets[c].created_at > GUEST_TOKEN_TTL

\* Faulty variant: one request more is let through.
Exhausted_Late(c) == token_sets[c].request_count > MAX_REQUESTS_PER_TOKEN

\* request_count >= TOKEN_CONFIG["max_requests_per_token"]
Exhausted(c) == token_sets[c].request_count >= MAX_REQUESTS_PER_TOKEN

\* max(0.1, base_score - age / ttl * 0.3) in units of 1/12000, in which the
\* age penalty of one second is one unit.
HealthScore(success, age) ==
    LET s == (IF success THEN 12000 ELSE 9600) - age
    IN  IF s > 1200 THEN s ELSE 1200

\* f"{int(token_set.created_at * 1000)}"
TokenId(c) == token_sets[c].created_at * 1000

\* _tokens.append(e); _tokens.sort(key=score, reverse=True): the sort is
\* stable, so e lands behind the entries that score as high.
AppendAndSort(seq, e) ==
    LET k == Cardinality({i \in 1..Len(seq) : seq[i].score >= e.score})
    IN  SubSeq(seq, 1, k) \o <<e>> \o SubSeq(seq, k + 1, Len(seq))

\* Faulty variant: the entry handed out stays in the list.
PopFirst_Peek(seq) == seq

\* What _tokens.pop(0) leaves behind.
PopFirst(seq) == Tail(seq)

\* InMemoryTokenPool.get_token: pop from the front, skipping the expired.
RECURSIVE PopValid(_)
PopValid(seq) ==
    IF seq = <<>> THEN [ts |-> NoToken, rest |-> <<>>]
    ELSE IF Expired(Head(seq).ts) THEN PopValid(Tail(seq))
    ELSE [ts |-> Head(seq).ts, rest |-> PopFirst(seq)]

\* Redis commands on the sorted set and the hashes of the pool.
ZAdd(z, id, score) ==
    {e \in z : e.id # id} \cup {[id |-> id, score |-> score]}
ZMax(z) ==
    CHOOSE e \in z : \A f \in z :
        f.score < e.score \/ (f.score = e.score /\ f.id <= e.id)
HGetAll(h, id) == IF \E e \in h : e.id = id
                  THEN (CHOOSE e \in h : e.id = id).fields ELSE {}
HSet(h, id, field) ==
    {e \in h : e.id # id}
        \cup {[id |-> id, fields |-> HGetAll(h, id) \cup {field}]}
HDel(h, id) == {e \in h : e.id # id}

\* add_token.  InMemoryTokenPool: health 1.0.  TokenPool: reads
\* token_set.proxy_key, which TokenSet does not have, before any command.
AddToken(P, c) ==
    IF P.backend = "memory"
    THEN [exc |-> "None",
          pool |-> [P EXCEPT !.tokens =
                        AppendAndSort(@, [score |-> 12000, ts |-> c])]]
    ELSE [exc |-> "AttributeError", pool |-> P]

\* get_token.  InMemoryTokenPool: PopValid.  TokenPool: ZPOPMAX, HGETALL,
\* then TokenSet(guest_token=data["guest_token"], ..., proxy=proxy), which
\* raises KeyError for a hash without the field and TypeError otherwise,
\* TokenSet taking no proxy.
GetToken(P) ==
    IF P.backend = "memory"
    THEN LET g == PopValid(P.tokens)
         IN  [exc |-> "None", ts |-> g.ts,
              pool |-> [P EXCEPT !.tokens = g.rest]]
    ELSE IF P.zset = {} THEN [exc |-> "None", ts |-> NoToken, pool |-> P]
    ELSE LET e == ZMax(P.zset)
             data == HGetAll(P.zhash, e.id)
             popped == [P EXCEPT !.zset = @ \ {e}]
         IN  IF data = {} THEN [exc |-> "None", ts |-> NoToken, pool |-> popped]
             ELSE IF "guest_token" \notin data
             THEN [exc |-> "KeyError", ts |-> NoToken, pool |-> popped]
             ELSE [exc |-> "TypeError", ts |-> NoToken, pool |-> popped]

\* return_token(token_set, success).
ReturnToken(P, c, success) ==
    LET age == pool_now - token_sets[c].created_at
        score == HealthScore(success, age)
    IN  IF P.backend = "memory"
        THEN IF Expired(c) \/ Exhausted(c) THEN P
             ELSE [P EXCEPT !.tokens =
                       AppendAndSort(@, [score |-> score, ts |-> c])]
        ELSE IF Expired(c) \/ Exhausted(c)
             THEN [P EXCEPT !.zhash = HDel(@, TokenId(c))]
             ELSE [P EXCEPT !.zhash = HSet(@, TokenId(c), "request_count"),
                            !.zset = ZAdd(@, TokenId(c), score)]

\* pool_size()
PoolSize(P) ==
    IF P.backend = "memory" THEN Len(P.tokens) ELSE Cardinality(P.zset)

\* The _fetch closure of a handler: its local token_set, the token_set of
\* the XClient it built, the TokenSet get_token last handed to it, the
\* TokenSets it passed to return_token, what the upstream answered, and the
\* exception it ended with.
IdleFetch == [pc |-> "idle", token_set |-> NoToken, client_ts |-> NoToken,
              taken |-> NoToken, returned |-> <<>>, status |-> "None",
              exc |-> "None"]

\* What the upstream answers: a result, a response without the result asked
\* for, rate-limited, forbidden.
Outcomes == {"200", "not found", "429", "403"}

EmptyPool(b) == [backend |-> b, tokens |-> <<>>, zset |-> {}, zhash |-> {}]

NoPoolWork ==
    /\ pool = EmptyPool("memory")
    /\ token_sets = [c \in Creds |-> NewTokenSet(0)]
    /\ minted = 0
    /\ fetch = [u \in Fetchers |-> IdleFetch]
    /\ pool_now = 0

\* create_token_set() returned the next TokenSet.
Mint == token_sets' = [token_sets EXCEPT ![minted + 1] = NewTokenSet(pool_now)]

\* _get_client(), called first thing by _fetch, on the event loop.  A
\* TokenSet that get_token returns fails the read of token_set.proxy; with
\* none, one is created inline (created == TRUE) or the request ends 503.
\* The closures are numbered in the order in which they start.
GetClient(u, created) ==
    /\ fetch[u].pc = "idle"
    /\ \A q \in Fetchers : q < u => fetch[q].pc # "idle"
    /\ LET g == GetToken(pool)
       IN  /\ pool' = g.pool
           /\ IF g.exc # "None"
              THEN /\ fetch' = [fetch EXCEPT ![u].pc = "raised",
                                             ![u].exc = g.exc]
                   /\ UNCHANGED <<token_sets, minted>>
              ELSE IF g.ts # NoToken
              THEN /\ fetch' = [fetch EXCEPT ![u].pc = "raised",
                                             ![u].taken = g.ts,
                                             ![u].exc = "AttributeError"]
                   /\ UNCHANGED <<token_sets, minted>>
              ELSE IF created /\ minted < MaxMint
              THEN /\ Mint
                   /\ minted' = minted + 1
                   /\ fetch' = [fetch EXCEPT ![u].pc = "fetching",
                                             ![u].token_set = minted + 1,
                                             ![u].client_ts = minted + 1]
              ELSE /\ fetch' = [fetch EXCEPT ![u].pc = "raised",
                                             ![u].exc = "HTTPException 503"]
                   /\ UNCHANGED <<token_sets, minted>>
    /\ UNCHANGED <<nonpool_vars, pool_now>>

\* XClient._check_token_health, in the worker thread of asyncio.to_thread,
\* before the request is sent.  An exhausted TokenSet handed back is dropped
\* by return_token, so get_token is the one pool command with an effect.
CheckTokenHealth(u, created) ==
    /\ fetch[u].pc = "fetching"
    /\ LET c == fetch[u].client_ts
       IN  IF ~(Expired(c) \/ Exhausted(c))
           THEN /\ fetch' = [fetch EXCEPT ![u].pc = "sending"]
                /\ UNCHANGED <<pool, token_sets, minted>>
           ELSE LET back == IF Expired(c) THEN pool
                            ELSE ReturnToken(pool, c, TRUE)
                    g == GetToken(back)
                    handed == IF Expired(c) THEN fetch[u].returned
                              ELSE Append(fetch[u].returned, c)
                IN  /\ pool' = g.pool
                    /\ IF g.exc # "None"
                       THEN /\ fetch' = [fetch EXCEPT ![u].pc = "called_fail",
                                                      ![u].returned = handed]
                            /\ UNCHANGED <<token_sets, minted>>
                       ELSE IF g.ts # NoToken
                       THEN /\ fetch' = [fetch EXCEPT ![u].pc = "sending",
                                                      ![u].client_ts = g.ts,
                                                      ![u].taken = g.ts,
                                                      ![u].returned = handed]
                            /\ UNCHANGED <<token_sets, minted>>
                       ELSE IF created /\ minted < MaxMint
                       THEN /\ Mint
                            /\ minted' = minted + 1
                            /\ fetch' = [fetch EXCEPT
                                            ![u].pc = "sending",
                                            ![u].client_ts = minted + 1,
                                            ![u].returned = handed]
                       ELSE /\ fetch' = [fetch EXCEPT ![u].pc = "sending",
                                                      ![u].returned = handed]
                            /\ UNCHANGED <<token_sets, minted>>
    /\ UNCHANGED <<nonpool_vars, pool_now>>

\* XClient.graphql_request after the health check: the response arrives and
\* raise_for_status() passes (request_count += 1) or raises.
ClientResponse(u, st) ==
    /\ fetch[u].pc = "sending"
    /\ IF st \in {"200", "not found"}
       THEN /\ token_sets' = [token_sets EXCEPT
                                 ![fetch[u].client_ts].request_count = @ + 1]
            /\ fetch' = [fetch EXCEPT ![u].pc = "called_ok",
                                      ![u].status = st]
       ELSE /\ fetch' = [fetch EXCEPT ![u].pc = "called_fail",
                                      ![u].status = st]
            /\ UNCHANGED token_sets
    /\ UNCHANGED <<nonpool_vars, pool, minted, pool_now>>

\* _fetch resumes from asyncio.to_thread and runs to its end: it hands its
\* local token_set back with the outcome and returns, or raises 404 for a
\* response without the result and 500 for an exception of the client.
FetchReturn(u) ==
    /\ fetch[u].pc \in {"called_ok", "called_fail"}
    /\ LET ok == fetch[u].pc = "called_ok"
       IN  /\ pool' = ReturnToken(pool, fetch[u].token_set, ok)
           /\ fetch' = [fetch EXCEPT
                           ![u].pc = IF ok /\ fetch[u].status = "200"
                                     THEN "done" ELSE "raised",
                           ![u].returned = Append(@, fetch[u].token_set),
                           ![u].exc = IF ~ok THEN "HTTPException 500"
                                      ELSE IF fetch[u].status = "200"
                                      THEN "None" ELSE "HTTPException 404"]
    /\ UNCHANGED <<nonpool_vars, token_sets, minted, pool_now>>

\* One round of _replenish_tokens whose create_token_set succeeded; the
\* exception of add_token is swallowed.
Replenish ==
    /\ PoolSize(pool) < REPLENISH_TARGET
    /\ minted < MaxMint
    /\ Mint
    /\ minted' = minted + 1
    /\ pool' = AddToken(pool, minted + 1).pool
    /\ UNCHANGED <<nonpool_vars, fetch, pool_now>>

PoolTick ==
    /\ pool_now < MaxPoolNow
    /\ pool_now' = pool_now + PoolTickStep
    /\ UNCHANGED <<nonpool_vars, pool, token_sets, minted, fetch>>

\* ------------------------------------------- direct callers of the pools
\* The pool classes as a library, the way token_manager, token_generator
\* and test_pool use them: every call is made on an InMemoryTokenPool and,
\* with the same arguments, on a TokenPool.
NoCall == [op |-> "none", mem |-> NoToken, redis |-> NoToken, exc |-> "None"]

NoCallerWork ==
    /\ mem_pool = EmptyPool("memory")
    /\ redis_pool = EmptyPool("redis")
    /\ lent = {}
    /\ last_call = NoCall
    /\ retired = {}

\* Request counts a TokenSet handed to add_token comes with: fresh, or one
\* request short of max_requests_per_token (token_generator loads saved
\* TokenSets).
StartCounts == {0, MAX_REQUESTS_PER_TOKEN - 1}

\* add_token(token_set) on both pools, for a TokenSet made now.
CallerAdd(rc) ==
    /\ minted < MaxAdds
    /\ token_sets' = [token_sets EXCEPT ![minted + 1] =
                         [created_at |-> pool_now, request_count |-> rc]]
    /\ minted' = minted + 1
    /\ LET a == AddToken(mem_pool, minted + 1)
           b == AddToken(redis_pool, minted + 1)
       IN  /\ mem_pool' = a.pool
           /\ redis_pool' = b.pool
           /\ last_call' = [op |-> "add", mem |-> NoToken, redis |-> NoToken,
                            exc |-> b.exc]
    /\ UNCHANGED <<serve_vars, key_vars, other_vars,
                   pool, fetch, pool_now, lent, retired>>

\* get_token() on both pools.
CallerTake ==
    /\ LET a == GetToken(mem_pool)
           b == GetToken(redis_pool)
       IN  /\ mem_pool' = a.pool
           /\ redis_pool' = b.pool
           /\ lent' = lent \cup ({a.ts} \ {NoToken})
           /\ last_call' = [op |-> "take", mem |-> a.ts, redis |-> b.ts,
                            exc |-> b.exc]
    /\ UNCHANGED <<serve_vars, key_vars, other_vars, pool_vars, retired>>

\* The one request a caller makes with a TokenSet that is lent:
\* request_count += 1.
CallerUse(c) ==
    /\ c \in lent
    /\ token_sets[c].request_count \in StartCounts
    /\ token_sets' = [token_sets EXCEPT ![c].request_count = @ + 1]
    /\ UNCHANGED <<serve_vars, key_vars, other_vars, caller_vars,
                   pool, minted, fetch, pool_now>>

\* return_token(token_set, success) on both pools.
CallerReturn(c, success) ==
    /\ c \in lent
    /\ mem_pool' = ReturnToken(mem_pool, c, success)
    /\ redis_pool' = ReturnToken(redis_pool, c, success)
    /\ lent' = lent \ {c}
    /\ retired' =
          IF \/ pool_now - token_sets[c].created_at > GUEST_TOKEN_TTL
             \/ token_sets[c].request_count >= MAX_REQUESTS_PER_TOKEN
          THEN retired \cup {c} ELSE retired
    /\ last_call' = [op |-> "return", mem |-> NoToken, redis |-> NoToken,
                     exc |-> "None"]
    /\ UNCHANGED <<serve_vars, key_vars, other_vars, pool_vars>>

\* ------------------------------------------------------ the account pool
\* AccountPool and its Accounts (account_pool.py), driven by the requests
\* that run on an account: search._fetch, get_tweet_detail and the social
\* endpoints.  Every method of the pool runs under AccountPool._lock, so one
\* call is one step.  A slot whose request has ended takes the next request.
Accts == 1..NumAccts
AcctReqs == 1..NumAcctReqs
NoAccount == 0
NoSession == 0
\* The moments at which the account pool's clock is read.
AcctMoments == {0, 60, COOLDOWN_429}
AcctOutcomes == {200, 429, 403, 500}

\* Account(...) as from_file builds it, with the deque of __post_init__.
\* last_used, which acquire writes and nothing reads, is left out.
NewAccount ==
    [request_count |-> 0, rate_limited_until |-> 0, failures |-> 0,
     _sessions |-> <<>>]

NoAcquire == [account |-> NoAccount, scanned |-> <<>>, at |-> 0]
NoRelease == [account |-> NoAccount, status_code |-> 0, at |-> 0]

IdleAcctReq == [pc |-> "idle", account |-> NoAccount, session |-> NoSession]

NoAcctWork ==
    /\ accounts = [a \in Accts |-> NewAccount]
    /\ acct_index = 0
    /\ acct_now = 0
    /\ acct_req = [r \in AcctReqs |-> IdleAcctReq]
    /\ acct_sess = <<>>
    /\ acquired = 0
    /\ last_acquire = NoAcquire
    /\ last_release = NoRelease

\* What the actions of the account pool never touch.
nonacct_vars == <<serve_vars, key_vars, pool_vars, caller_vars, sess_vars,
                  txn_vars, writer>>

\* Faulty variant: an account is still unusable at the very second its
\* cooldown ends.
is_available_Late(A, a, t) == ~(A[a].rate_limited_until >= t)

\* Account.is_available at time t.
is_available(A, a, t) == ~(A[a].rate_limited_until > t)

\* The loop of AccountPool.acquire with `left` iterations to go: the account
\* returned (NoAccount: None), the new _index and the accounts looked at.
RECURSIVE ScanAccounts(_, _, _, _, _)
ScanAccounts(A, idx, t, left, seen) ==
    IF left = 0
    THEN [account |-> NoAccount, index |-> idx, scanned |-> seen]
    ELSE LET a == (idx % NumAccts) + 1
         IN  IF is_available(A, a, t)
             THEN [account |-> a, index |-> idx + 1,
                   scanned |-> Append(seen, a)]
             ELSE ScanAccounts(A, idx + 1, t, left - 1, Append(seen, a))

\* AccountPool.acquire() at time t.
Acquire(A, idx, t) == ScanAccounts(A, idx, t, NumAccts, <<>>)

\* Account.release_session(session) of account a: the accounts and the
\* session table afterwards.
ReleaseSession(A, S, a, s) ==
    IF Len(A[a]._sessions) < MAX_SESSIONS_PER_ACCOUNT
    THEN [accounts |-> [A EXCEPT ![a]._sessions = Append(@, s)], sess |-> S]
    ELSE [accounts |-> A, sess |-> [S EXCEPT ![s].closed = TRUE]]

\* The inner loop of prewarm_all for account a with k sessions to go.
RECURSIVE WarmAccount(_, _, _, _)
WarmAccount(A, S, a, k) ==
    IF k = 0 THEN [accounts |-> A, sess |-> S]
    ELSE LET made == Append(S, [account |-> a, closed |-> FALSE])
             put == ReleaseSession(A, made, a, Len(made))
         IN  WarmAccount(put.accounts, put.sess, a, k - 1)

\* The outer loop of prewarm_all from account a on.
RECURSIVE WarmFrom(_, _, _)
WarmFrom(A, S, a) ==
    IF a > NumAccts THEN [accounts |-> A, sess |-> S]
    ELSE LET w == WarmAccount(A, S, a, SessionsPerAccount)
         IN  WarmFrom(w.accounts, w.sess, a + 1)

\* lifespan: acct_pool.prewarm_all(sessions_per_account), before the first
\* request is served.
PrewarmAll ==
    /\ acct_sess = <<>>
    /\ acquired = 0
    /\ LET w == WarmFrom(accounts, acct_sess, 1)
       IN  /\ accounts' = w.accounts
           /\ acct_sess' = w.sess
    /\ UNCHANGED <<nonacct_vars, acct_index, acct_now, acct_req, acquired,
                   last_acquire, last_release>>

\* search._fetch up to its await: acquire(), then 503 when there is no
\* account, else acquire_session() (a warm session of the account, or a new
\* one).  The next request takes the lowest free slot.
AcctAcquire(r) ==
    /\ acquired < MaxAcquires
    /\ acct_sess # <<>>
    /\ acct_req[r].pc = "idle"
    /\ \A q \in AcctReqs : q < r => acct_req[q].pc # "idle"
    /\ LET got == Acquire(accounts, acct_index, acct_now)
           a == got.account
       IN  /\ acct_index' = got.index
           /\ acquired' = acquired + 1
           /\ last_acquire' =
                  [account |-> a, scanned |-> got.scanned, at |-> acct_now]
           /\ IF a = NoAccount
              THEN UNCHANGED <<accounts, acct_sess, acct_req>>
              ELSE LET warm == accounts[a]._sessions # <<>>
                       s == IF warm THEN Head(accounts[a]._sessions)
                            ELSE Len(acct_sess) + 1
                   IN  /\ accounts' = [accounts EXCEPT
                              ![a]._sessions = IF warm THEN Tail(@) ELSE @]
                       /\ acct_sess' =
                              IF warm THEN acct_sess
                              ELSE Append(acct_sess,
                                          [account |-> a, closed |-> FALSE])
                       /\ acct_req' = [acct_req EXCEPT ![r] =
                              [pc |-> "held", account |-> a, session |-> s]]
    /\ UNCHANGED <<nonacct_vars, acct_now, last_release>>

\* Faulty variant: a 403 starts the cooldown of a 429.
Release_ShortForbidden(A, a, success, status_code, t) ==
    [A EXCEPT
       ![a].request_count = @ + 1,
       ![a].failures = IF success THEN 0 ELSE @ + 1,
       ![a].rate_limited_until =
           IF success THEN @
           ELSE IF status_code \in {429, 403} THEN t + COOLDOWN_429
           ELSE @]

\* AccountPool.release(account, success, status_code) at time t.
Release(A, a, success, status_code, t) ==
    [A EXCEPT
       ![a].request_count = @ + 1,
       ![a].failures = IF success THEN 0 ELSE @ + 1,
       ![a].rate_limited_until =
           IF success THEN @
           ELSE IF status_code = 429 THEN t + COOLDOWN_429
           ELSE IF status_code = 403 THEN t + COOLDOWN_403
           ELSE @]

\* search._fetch after its await: the request ended with status st, the
\* account is released with it, and the finally clause hands the session
\* back to the account.
AcctRelease(r, st) ==
    /\ acct_req[r].pc = "held"
    /\ LET a == acct_req[r].account
           rel == Release(accounts, a, st = 200, st, acct_now)
           put == ReleaseSession(rel, acct_sess, a, acct_req[r].session)
       IN  /\ accounts' = put.accounts
           /\ acct_sess' = put.sess
           /\ last_release' =
                  [account |-> a, status_code |-> st, at |-> acct_now]
    /\ acct_req' = [acct_req EXCEPT ![r] = IdleAcctReq]
    /\ UNCHANGED <<nonacct_vars, acct_index, acct_now, acquired,
                   last_acquire>>

AcctTick(t) ==
    /\ t > acct_now
    /\ acct_now' = t
    /\ UNCHANGED <<nonacct_vars, accounts, acct_index, acct_req, acct_sess,
                   acquired, last_acquire, last_release>>

\* ------------------------------------------------------ the session pool
\* SessionPool (main.py), used by the _fetch closures that reach the end of
\* _get_client: those whose TokenSet came from create_token_set.  Every
\* method holds SessionPool._lock, and the closures run on the event loop.
SessReqs == 1..NumSessReqs
ProxyUrls == {"http://p1", "http://p2"}
NoProxy == "None"
Proxies == ProxyUrls \cup {NoProxy}

\* Faulty variant: every proxy has the key of the direct route.
proxy_key_Blind(proxy) == ""

\* _proxy_key(proxy) for the dict to_curl_cffi_format makes of a URL.
proxy_key(proxy) == IF proxy = NoProxy THEN "" ELSE proxy

NoBuckets == [k \in {} |-> <<>>]
IdleSessReq ==
    [pc |-> "idle", proxy |-> NoProxy, session |-> NoSession, warm |-> FALSE]

\* SessionPool() and a ProxyManager with no proxy or with all of ProxyUrls.
NoSessWork ==
    /\ proxy_urls \in {{}, ProxyUrls}
    /\ buckets = NoBuckets
    /\ sessions = <<>>
    /\ sess_req = [r \in SessReqs |-> IdleSessReq]
    /\ sess_acquired = 0
    /\ shut_down = FALSE

\* What the actions of the session pool never touch.
nonsess_vars == <<serve_vars, key_vars, pool_vars, caller_vars, acct_vars,
                  txn_vars, writer>>

\* self._buckets.get(key), with None read as the empty deque, and
\* self._buckets[key] = q.
BucketGet(B, key) == IF key \in DOMAIN B THEN B[key] ELSE <<>>
BucketSet(B, key, q) ==
    [k \in DOMAIN B \cup {key} |-> IF k = key THEN q ELSE B[k]]
BucketDel(B, key) == [k \in DOMAIN B \ {key} |-> B[k]]

\* Faulty variant: the bucket takes one session more than max_per_proxy.
HasRoom_OneMore(q) == Len(q) < SESSION_POOL_SIZE + 1

\* len(bucket) < self._max_per_proxy.
HasRoom(q) == Len(q) < SESSION_POOL_SIZE

\* The locked part of SessionPool.release and of one turn of prewarm:
\* setdefault, then append or close.
PutSession(B, S, proxy, s) ==
    LET key == proxy_key(proxy)
        q == BucketGet(B, key)
    IN  IF HasRoom(q)
        THEN [buckets |-> BucketSet(B, key, Append(q, s)), sessions |-> S]
        ELSE [buckets |-> BucketSet(B, key, q),
              sessions |-> [S EXCEPT ![s].closed = TRUE]]

\* The loop of SessionPool.prewarm with k sessions to go.
RECURSIVE Prewarm(_, _, _, _)
Prewarm(B, S, proxy, k) ==
    IF k = 0 THEN [buckets |-> B, sessions |-> S]
    ELSE LET made == Append(S, [proxies |-> proxy, closed |-> FALSE])
             put == PutSession(B, made, proxy, Len(made))
         IN  Prewarm(put.buckets, put.sessions, proxy, k - 1)

\* lifespan: session_pool.prewarm(count), for the direct route, before the
\* first request is served.
SessPrewarm ==
    /\ sessions = <<>>
    /\ sess_acquired = 0
    /\ LET w == Prewarm(buckets, sessions, NoProxy, PrewarmCount)
       IN  /\ buckets' = w.buckets
           /\ sessions' = w.sessions
    /\ UNCHANGED <<nonsess_vars, proxy_urls, sess_req, sess_acquired,
                   shut_down>>

\* The proxies _get_client can end up with: one of the ProxyManager's, or
\* None when it has none.
ClientProxies == IF proxy_urls = {} THEN {NoProxy} ELSE proxy_urls

\* Faulty variant: the session handed out stays in its bucket.
popleft_Peek(bucket) == bucket

\* What bucket.popleft() leaves in the deque.
popleft(bucket) == Tail(bucket)

\* _get_client from its choice of proxy on: session_pool.acquire(proxy)
\* pops the oldest session of the proxy's bucket and deletes the bucket when
\* that empties it, or makes a session with session.proxies = proxy.
SessAcquire(r, proxy) ==
    /\ sess_acquired < MaxSessAcquires
    /\ sessions # <<>>
    /\ sess_req[r].pc = "idle"
    /\ \A q \in SessReqs : q < r => sess_req[q].pc # "idle"
    /\ proxy \in ClientProxies
    /\ sess_acquired' = sess_acquired + 1
    /\ LET key == proxy_key(proxy)
           bucket == BucketGet(buckets, key)
       IN  IF bucket # <<>>
           THEN /\ buckets' = IF popleft(bucket) = <<>>
                              THEN BucketDel(buckets, key)
                              ELSE BucketSet(buckets, key, popleft(bucket))
                /\ sess_req' = [sess_req EXCEPT ![r] =
                       [pc |-> "held", proxy |-> proxy,
                        session |-> Head(bucket), warm |-> TRUE]]
                /\ UNCHANGED sessions
           ELSE /\ sessions' = Append(sessions,
                       [proxies |-> proxy, closed |-> FALSE])
                /\ sess_req' = [sess_req EXCEPT ![r] =
                       [pc |-> "held", proxy |-> proxy,
                        session |-> Len(sessions) + 1, warm |-> FALSE]]
                /\ UNCHANGED buckets
    /\ UNCHANGED <<nonsess_vars, proxy_urls, shut_down>>

\* The finally clause of a _fetch closure: client.close() leaves a session
\* it was given open, and session_pool.release(session, proxy=proxy) puts
\* it into the proxy's bucket or closes it.
SessRelease(r) ==
    /\ sess_req[r].pc = "held"
    /\ LET put == PutSession(buckets, sessions, sess_req[r].proxy,
                             sess_req[r].session)
       IN  /\ buckets' = put.buckets
           /\ sessions' = put.sessions
    /\ sess_req' = [sess_req EXCEPT ![r] = IdleSessReq]
    /\ UNCHANGED <<nonsess_vars, proxy_urls, sess_acquired, shut_down>>

\* SessionPool.close_all(): every session in a bucket is closed and the
\* buckets are cleared; the sessions that requests hold are not reached.
close_all(B, S) ==
    [buckets |-> NoBuckets,
     sessions |-> [s \in 1..Len(S) |->
                     IF \E k \in DOMAIN B : \E i \in 1..Len(B[k]) : B[k][i] = s
                     THEN [S[s] EXCEPT !.closed = TRUE] ELSE S[s]]]

\* lifespan after its yield, from cache_mgr.close() on, its startup part
\* with the prewarming having run: of the sessions it closes those of
\* session_pool only; no account is touched.
Shutdown ==
    /\ ~shut_down
    /\ sessions # <<>> \/ acct_sess # <<>>
    /\ LET c == close_all(buckets, sessions)
       IN  /\ buckets' = c.buckets
           /\ sessions' = c.sessions
    /\ shut_down' = TRUE
    /\ UNCHANGED <<nonsess_vars, proxy_urls, sess_req, sess_acquired>>

\* ------------------------------------------------ TransactionIDGenerator
\* _txn_generator (client.py), created at import with its background thread
\* started.  generate and get_session_cookies run in the worker threads of
\* asyncio.to_thread.  _ct is the number of the fetch that made the material
\* (NoCt: None).
GenThreads == 1..NumGen
NoCt == 0
TxnMoments == {0, TXN_TTL - 1, TXN_TTL}
TxnCalls == {"generate", "get_session_cookies"}

NewTxn == [ct |-> NoCt, initialized_at |-> 0, ready |-> FALSE,
           bg |-> "running", now |-> 0]
IdleGen == [pc |-> "idle", call |-> "generate", stale |-> FALSE,
            saw |-> NoCt, used |-> NoCt]

NoTxnWork ==
    /\ txn = NewTxn
    /\ gen = [t \in GenThreads |-> IdleGen]

\* What the actions of the generator never touch.
nontxn_vars == <<serve_vars, key_vars, pool_vars, caller_vars, acct_vars,
                 sess_vars, writer>>

\* self._ct is not None and (time.time() - self._initialized_at) < self._ttl
IsCurrent(T) == T.ct # NoCt /\ T.now - T.initialized_at < TXN_TTL

\* _init_sync from the end of its two GETs on: the material, its time and
\* _ready are set, or the exception is printed and _ready alone is set.
init_sync(T, ok) ==
    IF ok
    THEN [T EXCEPT !.ct = @ + 1, !.initialized_at = T.now, !.ready = TRUE]
    ELSE [T EXCEPT !.ready = TRUE]

\* What follows _ensure_initialized: generate calls
\* self._ct.generate_transaction_id, which raises AttributeError on None;
\* get_session_cookies copies the cookies kept with the material.
Produce(g, T) ==
    IF g.call = "generate" /\ T.ct = NoCt
    THEN [g EXCEPT !.pc = "raised"]
    ELSE [g EXCEPT !.pc = "done", !.used = T.ct]

\* The thread of start_background_init ends its _init_sync.
BackgroundInit(ok) ==
    /\ txn.bg = "running"
    /\ txn' = [init_sync(txn, ok) EXCEPT !.bg = "ended"]
    /\ UNCHANGED <<nontxn_vars, gen>>

\* generate or get_session_cookies up to the first point at which
\* _ensure_initialized blocks: it returns at once on current material, waits
\* on _ready while that is not set, and else calls _init_sync itself.
GenCall(t, call) ==
    /\ gen[t].pc = "idle"
    /\ \A q \in GenThreads : q < t => gen[q].pc # "idle"
    /\ LET g == [gen[t] EXCEPT !.call = call,
                               \* history: what the call found
                               !.stale = ~IsCurrent(txn), !.saw = txn.ct]
       IN  gen' = [gen EXCEPT ![t] =
                      IF IsCurrent(txn) THEN Produce(g, txn)
                      ELSE IF ~txn.ready THEN [g EXCEPT !.pc = "waiting"]
                      ELSE [g EXCEPT !.pc = "fetching"]]
    /\ UNCHANGED <<nontxn_vars, txn>>

\* self._ready.wait(timeout=20) returns, _ready set or the 20 s over: with
\* material the call goes on, without it calls _init_sync.
WaitEnd(t) ==
    /\ gen[t].pc = "waiting"
    /\ gen' = [gen EXCEPT ![t] =
                  IF txn.ct # NoCt THEN Produce(@, txn)
                  ELSE [@ EXCEPT !.pc = "fetching"]]
    /\ UNCHANGED <<nontxn_vars, txn>>

\* The _init_sync that thread t called ends, and the call goes on.
FetchEnd(t, ok) ==
    /\ gen[t].pc = "fetching"
    /\ txn' = init_sync(txn, ok)
    /\ gen' = [gen EXCEPT ![t] = Produce(@, init_sync(txn, ok))]
    /\ UNCHANGED nontxn_vars

TxnTick(m) ==
    /\ m > txn.now
    /\ txn' = [txn EXCEPT !.now = m]
    /\ UNCHANGED <<nontxn_vars, gen>>

\* ------------------------------------------------------ ClickHouseWriter
\* (clickhouse_writer.py) on the event loop: the callers of buffer_tweets
\* and buffer_search_query, the task of _flush_loop and close().  An event
\* is the number of the call that handed it over; a batch is the list that
\* _flush_tweets or _flush_queries passes to insert.
EventKinds == {"tweet", "query"}
FlushTasks == {"loop", "closer"}

\* The writer after connect(), which found ClickHouse (up) or did not.
NewWriter(up) ==
    [available |-> up, client |-> up, tweet_buffer |-> <<>>,
     query_buffer |-> <<>>, loop |-> IF up THEN "sleeping" ELSE "none",
     cancel |-> FALSE, closer |-> "idle", batches |-> <<>>, nevents |-> 0,
     accepted |-> {}]

NoWriterWork == writer = NewWriter(FALSE)

\* What the actions of the writer never touch.
nonwriter_vars == <<serve_vars, key_vars, pool_vars, caller_vars, acct_vars,
                    sess_vars, txn_vars>>

\* Faulty variant: the buffer keeps what was copied into the batch.
clear_Keep(buffer) == buffer

\* What self._tweet_buffer.clear() and self._query_buffer.clear() leave.
clear(buffer) == <<>>

\* The end of close(): the client is closed and dropped, _available = False.
CloseEnd(W) ==
    [W EXCEPT !.client = FALSE, !.available = FALSE, !.closer = "closed"]

\* _flush has returned: _flush_loop sleeps again, close() goes on.
FlushEnd(W, who) ==
    IF who = "loop" THEN [W EXCEPT !.loop = "sleeping"] ELSE CloseEnd(W)

\* _flush_queries up to its await: nothing to do, or the batch is copied,
\* the buffer cleared and insert awaited.
FlushQueries(W, who) ==
    IF W.query_buffer = <<>> \/ ~W.client THEN FlushEnd(W, who)
    ELSE [W EXCEPT
             !.batches = Append(@, [kind |-> "query", by |-> who,
                                    events |-> W.query_buffer,
                                    status |-> "inflight"]),
             !.query_buffer = clear(@),
             ![who] = "insert_queries"]

\* _flush up to its first await: _flush_tweets, then _flush_queries.
FlushTweets(W, who) ==
    IF W.tweet_buffer = <<>> \/ ~W.client THEN FlushQueries(W, who)
    ELSE [W EXCEPT
             !.batches = Append(@, [kind |-> "tweet", by |-> who,
                                    events |-> W.tweet_buffer,
                                    status |-> "inflight"]),
             !.tweet_buffer = clear(@),
             ![who] = "insert_tweets"]

\* buffer_tweets([e]) or buffer_search_query(...): a no-op unless available.
Enqueue(kind) ==
    /\ writer.nevents < MaxEvents
    /\ LET e == writer.nevents + 1
           W == [writer EXCEPT !.nevents = e]
       IN  writer' =
               IF ~writer.available THEN W
               ELSE IF kind = "tweet"
               THEN [W EXCEPT !.tweet_buffer = Append(@, e),
                              !.accepted = @ \cup {e}]
               ELSE [W EXCEPT !.query_buffer = Append(@, e),
                              !.accepted = @ \cup {e}]
    /\ UNCHANGED nonwriter_vars

\* asyncio.sleep(CH_FLUSH_INTERVAL) is over in _flush_loop: _flush().
FlushWake ==
    /\ writer.loop = "sleeping"
    /\ ~writer.cancel
    /\ writer' = FlushTweets(writer, "loop")
    /\ UNCHANGED nonwriter_vars

\* The insert awaited by task who returned (ok) or raised an Exception,
\* which is printed; the flush goes on.
InsertDone(who, ok) ==
    /\ writer[who] \in {"insert_tweets", "insert_queries"}
    /\ who = "loop" => ~writer.cancel
    /\ LET i == CHOOSE j \in 1..Len(writer.batches) :
                   /\ writer.batches[j].by = who
                   /\ writer.batches[j].status = "inflight"
           W == [writer EXCEPT !.batches[i].status =
                                   IF ok THEN "sent" ELSE "dropped"]
       IN  writer' = IF writer[who] = "insert_tweets"
                     THEN FlushQueries(W, who)
                     ELSE FlushEnd(W, who)
    /\ UNCHANGED nonwriter_vars

\* close() up to its first await: the flush task is cancelled and awaited;
\* with no flush task the writer is not available and close() runs through.
CloseCall ==
    /\ writer.closer = "idle"
    /\ writer' = IF writer.loop # "none"
                 THEN [writer EXCEPT !.cancel = TRUE, !.closer = "await_task"]
                 ELSE IF writer.available
                 THEN FlushTweets(writer, "closer")
                 ELSE CloseEnd(writer)
    /\ UNCHANGED nonwriter_vars

\* CancelledError is thrown into the flush task at its await, in sleep or
\* in insert; `except Exception` does not catch it and the task ends.  The
\* insert it awaited keeps running in its thread.
LoopCancelled ==
    /\ writer.cancel
    /\ writer.loop \in {"sleeping", "insert_tweets", "insert_queries"}
    /\ writer' = [writer EXCEPT !.loop = "cancelled"]
    /\ UNCHANGED nonwriter_vars

\* close() resumes from `await self._flush_task`: the final flush.
CloseResume ==
    /\ writer.closer = "await_task"
    /\ writer.loop = "cancelled"
    /\ writer' = IF writer.available THEN FlushTweets(writer, "closer")
                 ELSE CloseEnd(writer)
    /\ UNCHANGED nonwriter_vars

NoRestWork ==
    /\ NoCallerWork
    /\ NoAcctWork
    /\ NoSessWork
    /\ proxy_urls = {}
    /\ NoTxnWork
    /\ NoWriterWork

\* The list tweet_dicts that build n of the search fetch_fn produced, the
\* pair (tweet_dicts, next_cursor) that this fetch_fn returns, and the list
\* of the first h tweet dicts hydrated from L1.
Recs(n) == [tag |-> "recs", n |-> n, co |-> FALSE]
RC(n) == [tag |-> "rc", n |-> n, co |-> FALSE]
Hyd(h) == [tag |-> "hyd", n |-> h, co |-> FALSE]

\* The "id" of each record of a built tweet_dicts; 0: the record has none.
RecordIds == <<1, 0>>
\* The next_cursor a search build returns.
BuiltCursor == "c2"

\* a, b = v for a 2-tuple v: the pair of Coalescer.do unpacks into the
\* build's result and was_coalesced; the pair of the search fetch_fn into
\* tweet_dicts and next_cursor.
Unpack2(v) ==
    IF v.tag = "tuple"
    THEN <<RC(v.n), IF v.co THEN "True" ELSE "False">>
    ELSE <<Recs(v.n), BuiltCursor>>

\* bool(v) of a list or tuple: non-empty.
Truthy(v) ==
    IF v.tag = "recs" THEN Len(RecordIds) > 0
    ELSE IF v.tag = "hyd" THEN v.n > 0
    ELSE TRUE

\* len(v)
PyLen(v) ==
    IF v.tag = "recs" THEN Len(RecordIds)
    ELSE IF v.tag = "hyd" THEN v.n
    ELSE 2

\* [(make_key("tweet", td["id"]), td, TTL_TWEET) for td in tweet_dicts
\*  if td.get("id")]: the ids of the items, or the exception raised.  The
\* first element of a pair (tweet_dicts, next_cursor) is a list, which has no
\* attribute get.
WriteThroughItems(v) ==
    IF v.tag = "recs"
    THEN [exc |-> "none",
          ids |-> {RecordIds[i] : i \in DOMAIN RecordIds} \ {0}]
    ELSE [exc |-> "AttributeError", ids |-> {}]

\* {"tweets": tweets, "next_cursor": next_cursor}
SearchResp(v, c) == [tag |-> "resp", tweets |-> v, next_cursor |-> c]

\* orjson.dumps of a search response: lists and tuples become arrays, None
\* null, booleans false / true, strings quoted strings.
SDumps(resp) ==
    [tag |-> "object",
     tweets |-> [resp.tweets EXCEPT !.tag = "array:" \o @],
     next_cursor |-> IF resp.next_cursor = None THEN "null"
                     ELSE IF resp.next_cursor = "False" THEN "false"
                     ELSE IF resp.next_cursor = "True" THEN "true"
                     ELSE "\"" \o resp.next_cursor \o "\""]

\* orjson.loads of a stored search response: an array of tweet dicts is a
\* list of them again; the array of a pair is a list, not a tuple.
SLoads(j) ==
    [tag |-> "resp",
     tweets |-> [j.tweets EXCEPT !.tag =
                    IF @ = "array:recs" THEN "recs"
                    ELSE IF @ = "array:hyd" THEN "hyd" ELSE "list:rc"],
     next_cursor |-> IF j.next_cursor = "null" THEN None
                     ELSE IF j.next_cursor = "false" THEN "False"
                     ELSE IF j.next_cursor = "true" THEN "True"
                     ELSE SubSeq(j.next_cursor, 2, Len(j.next_cursor) - 1)]

\* RedisCache.set of a search response: the SET command is sent.
SearchSetOp(v, c) ==
    [kind |-> "set", st |-> "sent", at |-> now,
     has |-> TRUE, data |-> SDumps(SearchResp(v, c)), stored_at |-> now]

\* search_with_typesense_fallback after `await self.coalescer.do(...)` has
\* returned out.val, up to the next suspension: the pair is unpacked into
\* tweet_dicts, next_cursor and _write_through_search begins; with Redis not
\* connected redis.set returns at once and the items are computed.
SearchAfterDo(rec, out) ==
    LET u == Unpack2(out.val)
        it == WriteThroughItems(u[1])
        got == [rec EXCEPT !.data = u[1], !.next_cursor = u[2]]
    IN  IF connected
        THEN [got EXCEPT !.pc = "wt_set", !.op = SearchSetOp(u[1], u[2])]
        ELSE IF Truthy(u[1]) /\ it.exc # "none"
        THEN [got EXCEPT !.pc = "raised", !.exc = it.exc]
        ELSE [got EXCEPT !.pc = "wt_tail"]

\* --------------------------------------------------------------- Coalescer
\* self._in_flight.pop(key, None)
Pop(m, k) == [m EXCEPT ![k] = NoTask]

\* Faulty variant: _run re-raises without popping the key.
RunOnException_NoPop(m, k) == m

\* except Exception: self._in_flight.pop(key, None); raise     (Coalescer._run)
RunOnException(m, k) == Pop(m, k)

\* finally: self._in_flight.pop(key, None)      (Coalescer.do, the originator)
DoFinally(m, k) == Pop(m, k)

\* Faulty variant: do() reports every caller as the originator.
WasCoalesced_Never(orig) == FALSE

\* was_coalesced of the pair do() returns: True for a waiter, False for the
\* caller that registered the task.
WasCoalesced(orig) == ~orig

\* What `await task` hands to the awaiter once task t is finished.
TaskOutcome(t, orig) ==
    IF task[t].state = "ok"
    THEN [exc |-> "none", val |-> PyTuple(task[t].num, WasCoalesced(orig))]
    ELSE IF task[t].state = "failed"
    THEN [exc |-> "build", val |-> NoVal]
    ELSE [exc |-> "cancelled", val |-> NoVal]

\* Faulty variant: the exception of the build is swallowed.
Raise_Swallowed(rec, e) == [rec EXCEPT !.pc = "done", !.layer = "live"]

\* `await self.coalescer.do(...)` raises e: neither get_or_fetch nor
\* search_with_typesense_fallback catches it, so the call ends with e.
Raise(rec, e) ==
    [rec EXCEPT !.pc = IF e = "cancelled" THEN "cancelled" ELSE "raised",
                !.exc = e]

\* Faulty variant: get_or_fetch returns without awaiting redis.set.
ReturnFromDo_NoAwait(rec, out) ==
    IF out.exc # "none"
    THEN Raise(rec, out.exc)
    ELSE [rec EXCEPT !.pc = "done", !.data = out.val,
                     !.layer = IF rec.via = "do" THEN "do" ELSE "live",
                     !.op = IF rec.via = "do" \/ ~connected THEN rec.op
                            ELSE RedisSetOp(out.val)]

\* The code that follows `await self.coalescer.do(...)` up to the next
\* suspension.  A direct caller of do() is done; get_or_fetch binds the whole
\* pair to `data`, calls redis.set(cache_key, data, ttl) and returns
\* (data, "live") at once when Redis is not connected.
ReturnFromDo(rec, out) ==
    IF out.exc # "none"
    THEN Raise(rec, out.exc)
    ELSE IF rec.via = "do"
    THEN [rec EXCEPT !.pc = "done", !.data = out.val, !.layer = "do"]
    ELSE IF rec.via = "search"
    THEN SearchAfterDo(rec, out)
    ELSE IF ~connected
    THEN [rec EXCEPT !.pc = "done", !.data = out.val, !.layer = "live"]
    ELSE [rec EXCEPT !.pc = "l1_set", !.data = out.val, !.op = RedisSetOp(out.val)]

\* Coalescer.do up to its first suspension, run by request r whose record
\* is rec0 (rec0.key is the key).
DoEnter(r, rec0) ==
    LET k == rec0.key
        t == in_flight[k]
        \* history: the builds for k that had already failed at this call
        rec == [rec0 EXCEPT !.late_for =
                   {f \in Procs : task[f].state = "failed" /\ task[f].key = k}]
    IN  IF t # NoTask
        THEN /\ UNCHANGED <<in_flight, task>>
             /\ IF task[t].state \in Finished
                THEN req' = [req EXCEPT ![r] =
                                ReturnFromDo([rec EXCEPT !.awaiting = t],
                                             TaskOutcome(t, FALSE))]
                ELSE req' = [req EXCEPT ![r] =
                                [rec EXCEPT !.pc = "do_wait", !.awaiting = t,
                                            !.waited = TRUE]]
        ELSE /\ task' = [task EXCEPT ![r] =
                            [state |-> "scheduled", key |-> k, num |-> 0,
                             cancel |-> FALSE]]
             /\ in_flight' = [in_flight EXCEPT ![k] = r]
             /\ req' = [req EXCEPT ![r] =
                           [rec EXCEPT !.pc = "do_wait", !.awaiting = r,
                                       !.orig = TRUE]]

\* A caller invokes Coalescer.do(k, fn) directly.
DoCall(r, k) ==
    /\ req[r].pc = "idle"
    /\ \A q \in Callers : q < r => req[q].pc # "idle"
    /\ DoEnter(r, [req[r] EXCEPT !.key = k, !.via = "do"])
    /\ UNCHANGED <<ext_vars, swr, l1, connected, now, nbuilds>>
    /\ UNCHANGED search_vars

\* First step of the task of _run: fn() is invoked and suspends in the
\* upstream call.  A task cancelled before its first step never runs its body.
TaskStart(t) ==
    /\ task[t].state = "scheduled"
    /\ IF task[t].cancel
       THEN /\ task' = [task EXCEPT ![t].state = "cancelled"]
            /\ UNCHANGED nbuilds
       ELSE /\ task' = [task EXCEPT ![t].state = "running", ![t].num = nbuilds + 1]
            /\ nbuilds' = nbuilds + 1
    /\ UNCHANGED <<ext_vars, in_flight, req, swr, l1, connected, now>>
    /\ UNCHANGED search_vars

\* fn() returns: _run returns its value.
TaskSucceed(t) ==
    /\ task[t].state = "running"
    /\ ~task[t].cancel
    /\ task' = [task EXCEPT ![t].state = "ok"]
    /\ UNCHANGED <<ext_vars, in_flight, req, swr, l1, connected, now, nbuilds>>
    /\ UNCHANGED search_vars

\* fn() raises an Exception: _run pops the key and re-raises.
TaskFail(t) ==
    /\ task[t].state = "running"
    /\ ~task[t].cancel
    /\ task' = [task EXCEPT ![t].state = "failed"]
    /\ in_flight' = RunOnException(in_flight, task[t].key)
    /\ UNCHANGED <<ext_vars, req, swr, l1, connected, now, nbuilds>>
    /\ UNCHANGED search_vars

\* The running task was cancelled: CancelledError is thrown into fn(); it is
\* a BaseException, so `except Exception` in _run does not see it.
TaskCancelled(t) ==
    /\ task[t].state = "running"
    /\ task[t].cancel
    /\ task' = [task EXCEPT ![t].state = "cancelled"]
    /\ UNCHANGED <<ext_vars, in_flight, req, swr, l1, connected, now, nbuilds>>
    /\ UNCHANGED search_vars

\* The awaited task is finished and the awaiter's wake-up runs: `await task`
\* returns or raises in do(); the originator then runs its finally block.
Wake(r) ==
    LET rec == req[r]
        t == rec.awaiting
    IN  /\ rec.pc = "do_wait"
        /\ task[t].state \in Finished
        /\ in_flight' = IF rec.orig THEN DoFinally(in_flight, rec.key) ELSE in_flight
        /\ req' = [req EXCEPT ![r] =
                      IF rec.must_cancel
                      THEN [rec EXCEPT !.pc = "cancelled", !.exc = "cancelled"]
                      ELSE ReturnFromDo(rec, TaskOutcome(t, rec.orig))]
        /\ UNCHANGED <<ext_vars, task, swr, l1, connected, now, nbuilds>>
        /\ UNCHANGED search_vars

\* Task.cancel() on a request suspended in `await task`: the request's
\* _fut_waiter is the awaited task, so the cancellation is forwarded to it;
\* only when that task is already finished is the request itself marked.
Cancel(r) ==
    LET rec == req[r]
        t == rec.awaiting
    IN  /\ rec.pc = "do_wait"
        /\ ~rec.ext_cancelled
        /\ IF task[t].state \in Finished
           THEN /\ req' = [req EXCEPT ![r].ext_cancelled = TRUE,
                                      ![r].must_cancel = TRUE]
                /\ UNCHANGED task
           ELSE /\ req' = [req EXCEPT ![r].ext_cancelled = TRUE]
                /\ task' = [task EXCEPT ![t].cancel = TRUE]
        /\ UNCHANGED <<ext_vars, in_flight, swr, l1, connected, now, nbuilds>>
        /\ UNCHANGED search_vars

\* ------------------------------------------------------------ CacheManager
\* Faulty variant: an envelope exactly SWR_THRESHOLD old still counts as fresh.
IsFresh_Inclusive(age) == age <= SWR_THRESHOLD

\* age < CacheConfig.SWR_THRESHOLD        (get_or_fetch, the L1 hit branch)
IsFresh(age) == age < SWR_THRESHOLD

\* The Redis server answers GET: the stored bytes, nil once the key's expiry
\* (SET ... ex=ttl) has passed.
ServerGet(k) ==
    IF l1[k].has /\ now < l1[k].expires_at
    THEN [has |-> TRUE, data |-> l1[k].data, stored_at |-> l1[k].stored_at]
    ELSE [has |-> FALSE, data |-> Dumps(NoVal), stored_at |-> 0]

\* The Redis server applies SET key raw ex=ttl sent by writer w.
ServerSet(k, op, w) ==
    [l1 EXCEPT ![k] = [has |-> TRUE, data |-> op.data, stored_at |-> op.stored_at,
                       expires_at |-> now + TTL_PROFILE, writer |-> w]]

\* The id under which the refresh task spawned by request r writes to L1.
SwrWriter(r) == 0 - r

\* Faulty variant: _swr_refresh drops the built value without writing it.
SwrStoreBuilt_Drop(rec) == [rec EXCEPT !.state = "done"]

\* await self.redis.set(cache_key, data, ttl) in _swr_refresh: data is what
\* fetch_fn returned, the raw dict; redis.set returns at once when Redis is
\* not connected.
SwrStoreBuilt(rec) ==
    IF connected
    THEN [rec EXCEPT !.state = "l1_set", !.op = RedisSetOp(PyDict(rec.num))]
    ELSE [rec EXCEPT !.state = "done"]

\* Faulty variant: the refresh is awaited inline, so it runs before the return.
SpawnRefresh_Inline(r, k) ==
    [swr EXCEPT ![r] = [NoSwr EXCEPT !.state = "running", !.kind = "generic",
                                     !.key = k, !.num = nbuilds + 1]]

\* asyncio.create_task(self._swr_refresh(cache_key, ttl, fetch_fn))
SpawnRefresh(r, k) ==
    [swr EXCEPT ![r] = [NoSwr EXCEPT !.state = "scheduled", !.kind = "generic",
                                     !.key = k]]

\* get_or_fetch(k, ttl, fetch_fn, fresh) up to its first suspension.
GetOrFetch(r, k, fresh) ==
    LET rec == [req[r] EXCEPT !.key = k, !.fresh = fresh, !.via = "gof",
                              \* history: the identical calls in flight
                              !.overlap = {q \in Reqs \ {r} :
                                             /\ req[q].pc \in InFlight
                                             /\ req[q].key = k
                                             /\ req[q].fresh = fresh},
                              \* history: the last writer of L1[k] at the call
                              !.seen = l1[k].writer]
    IN  /\ req[r].pc = "idle"
        /\ \A q \in Reqs : q < r => req[q].pc # "idle"
        /\ IF fresh \/ ~connected
           THEN DoEnter(r, rec)
           ELSE /\ req' = [req EXCEPT ![r] =
                              [rec EXCEPT !.pc = "l1_get", !.op = RedisGetOp]]
                /\ UNCHANGED <<in_flight, task>>
        /\ UNCHANGED <<ext_vars, swr, l1, connected, now, nbuilds>>
        /\ UNCHANGED search_vars

\* The Redis server processes the GET of request r.
L1ServeGet(r) ==
    LET op == req[r].op
        ans == ServerGet(req[r].key)
    IN  /\ req[r].pc = "l1_get"
        /\ op.st = "sent"
        /\ req' = [req EXCEPT ![r].op =
                      [op EXCEPT !.st = "replied", !.has = ans.has,
                                 !.data = ans.data, !.stored_at = ans.stored_at],
                              \* history: the writer of the entry read
                              ![r].got = l1[req[r].key].writer]
        /\ UNCHANGED <<ext_vars, in_flight, task, swr, l1, connected, now, nbuilds>>
        /\ UNCHANGED search_vars

\* The Redis server processes the SET of request r.
L1ServeSet(r) ==
    LET op == req[r].op
    IN  /\ req[r].pc = "l1_set"
        /\ op.st = "sent"
        /\ l1' = ServerSet(req[r].key, op, r)
        /\ req' = [req EXCEPT ![r].op.st = "replied"]
        /\ UNCHANGED <<ext_vars, in_flight, task, swr, connected, now, nbuilds>>
        /\ UNCHANGED search_vars

\* redis.get returned to get_or_fetch: hit, stale hit or miss.
GetReturn(r) ==
    LET rec == req[r]
        op == rec.op
        age == now - op.stored_at
    IN  /\ rec.pc = "l1_get"
        /\ op.st = "replied"
        /\ now - op.at < CONNECT_TIMEOUT
        /\ IF ~op.has
           THEN /\ DoEnter(r, rec)
                /\ UNCHANGED swr
           ELSE /\ UNCHANGED <<in_flight, task>>
                /\ IF IsFresh(age)
                   THEN /\ req' = [req EXCEPT ![r] =
                                      [rec EXCEPT !.pc = "done",
                                                  !.data = Loads(op.data),
                                                  !.layer = "redis"]]
                        /\ UNCHANGED swr
                   ELSE /\ swr' = SpawnRefresh(r, rec.key)
                        /\ req' = [req EXCEPT ![r] =
                                      [rec EXCEPT !.pc = "done",
                                                  !.data = Loads(op.data),
                                                  !.layer = "swr",
                                                  !.spawned = TRUE]]
        /\ UNCHANGED <<ext_vars, l1, connected, now, nbuilds>>
        /\ UNCHANGED search_vars

\* redis.set returned to get_or_fetch: return data, "live".
SetReturn(r) ==
    /\ req[r].pc = "l1_set"
    /\ req[r].op.st = "replied"
    /\ now - req[r].op.at < CONNECT_TIMEOUT
    /\ req' = [req EXCEPT ![r].pc = "done", ![r].layer = "live"]
    /\ UNCHANGED <<ext_vars, in_flight, task, swr, l1, connected, now, nbuilds>>
    /\ UNCHANGED search_vars

\* The Redis command of request r got no answer within socket_timeout: the
\* client raises TimeoutError, which get_or_fetch does not catch.
L1Timeout(r) ==
    /\ req[r].pc \in {"l1_get", "l1_set"}
    /\ now - req[r].op.at >= CONNECT_TIMEOUT
    /\ req' = [req EXCEPT ![r].pc = "raised", ![r].exc = "l1"]
    /\ UNCHANGED <<ext_vars, in_flight, task, swr, l1, connected, now, nbuilds>>
    /\ UNCHANGED search_vars

\* First step of the detached task: _swr_refresh calls fetch_fn() itself.
SwrStart(r) ==
    /\ swr[r].state = "scheduled"
    /\ swr' = [swr EXCEPT ![r].state = "running", ![r].num = nbuilds + 1]
    /\ nbuilds' = nbuilds + 1
    /\ UNCHANGED <<ext_vars, in_flight, task, req, l1, connected, now>>
    /\ UNCHANGED search_vars

\* fetch_fn() returned in _swr_refresh: redis.set(cache_key, data, ttl).
SwrBuildOk(r) ==
    /\ swr[r].state = "running"
    /\ swr[r].kind = "generic"
    /\ swr' = [swr EXCEPT ![r] = SwrStoreBuilt(swr[r])]
    /\ UNCHANGED <<ext_vars, in_flight, task, req, l1, connected, now, nbuilds>>
    /\ UNCHANGED search_vars

\* Faulty variant: a failed refresh deletes the entry it could not renew.
L1AfterRefreshFailure_Delete(k) == [l1 EXCEPT ![k] = NoEntry]

\* except Exception as e: print(...) in _swr_refresh and _swr_refresh_search:
\* nothing is sent to Redis.
L1AfterRefreshFailure(k) == l1

\* fetch_fn() raised in _swr_refresh or _swr_refresh_search: the exception
\* is printed.
SwrBuildFail(r) ==
    /\ swr[r].state = "running"
    /\ swr' = [swr EXCEPT ![r].state = "failed"]
    /\ l1' = L1AfterRefreshFailure(swr[r].key)
    /\ UNCHANGED <<ext_vars, in_flight, task, req, connected, now, nbuilds>>
    /\ UNCHANGED search_vars

\* The Redis server processes the SET of the refresh task.
L1ServeSwrSet(r) ==
    /\ swr[r].state = "l1_set"
    /\ swr[r].op.st = "sent"
    /\ l1' = ServerSet(swr[r].key, swr[r].op, SwrWriter(r))
    /\ swr' = [swr EXCEPT ![r].op.st = "replied"]
    /\ UNCHANGED <<ext_vars, in_flight, task, req, connected, now, nbuilds>>
    /\ UNCHANGED search_vars

\* redis.set returned to _swr_refresh, which ends.
SwrSetReturn(r) ==
    /\ swr[r].state = "l1_set"
    /\ swr[r].op.st = "replied"
    /\ now - swr[r].op.at < CONNECT_TIMEOUT
    /\ swr' = [swr EXCEPT ![r].state = "done"]
    /\ UNCHANGED <<ext_vars, in_flight, task, req, l1, connected, now, nbuilds>>
    /\ UNCHANGED search_vars

\* The SET of the refresh task timed out: caught and printed.
SwrTimeout(r) ==
    /\ swr[r].state = "l1_set"
    /\ now - swr[r].op.at >= CONNECT_TIMEOUT
    /\ swr' = [swr EXCEPT ![r].state = "failed"]
    /\ UNCHANGED <<ext_vars, in_flight, task, req, l1, connected, now, nbuilds>>
    /\ UNCHANGED search_vars

\* ---------------------------------------------------- CacheManager: search
\* Faulty variant: L2 is consulted for every page.
ConsultL2_AnyPage(c) == ts_available

\* self.typesense.available and not cursor
ConsultL2(c) == ts_available /\ NotCursor(c)

\* Faulty variant: coverage of exactly 0.8 is not enough.
CoverageOk_Strict(h, n) == h > 0 /\ 10 * h > 8 * n

\* hydrated and len(hydrated) >= len(tweet_ids) * 0.8; the float product
\* n * 0.8 compares like the exact 8n/10 for every n up to the count limit 40.
CoverageOk(h, n) == h > 0 /\ 10 * h >= 8 * n

\* _log_search_query -> ClickHouseWriter.buffer_search_query
LogSearchQuery(c, r, hit) ==
    IF c.available
    THEN [c EXCEPT !.queries = @ \cup {[r |-> r, cache_hit |-> hit]}]
    ELSE c

\* ClickHouseWriter.buffer_tweets
BufferTweets(c, v) ==
    IF c.available THEN [c EXCEPT !.tweets = @ + PyLen(v)] ELSE c

\* The Redis server applies SET k raw ex=ttl sent by writer w.
ServerStore(k, op, ttl, w) ==
    [l1 EXCEPT ![k] = [has |-> TRUE, data |-> op.data, stored_at |-> op.stored_at,
                       expires_at |-> now + ttl, writer |-> w]]

\* asyncio.create_task(self._swr_refresh_search(cache_key, ...))
SpawnSearchRefresh(r, k) ==
    [swr EXCEPT ![r] = [NoSwr EXCEPT !.state = "scheduled", !.kind = "search",
                                     !.key = k]]

\* search_with_typesense_fallback from the L1 miss to the next suspension:
\* the L2 search when it applies, else the live fetch through the coalescer.
SearchMiss(r, rec) ==
    IF ConsultL2(rec.cursor)
    THEN /\ req' = [req EXCEPT ![r] = [rec EXCEPT !.pc = "ts_search", !.l2 = TRUE]]
         /\ UNCHANGED <<in_flight, task>>
    ELSE DoEnter(r, rec)

\* search_with_typesense_fallback(query, product, count, c, fetch_fn, fresh)
\* up to its first suspension.
Search(r, c, fresh) ==
    LET rec == [req[r] EXCEPT !.key = SearchKey(c), !.fresh = fresh,
                              !.via = "search", !.cursor = c]
    IN  /\ req[r].pc = "idle"
        /\ \A q \in Searchers : q < r => req[q].pc # "idle"
        /\ IF fresh
           THEN DoEnter(r, rec)
           ELSE IF ~connected
           THEN SearchMiss(r, rec)
           ELSE /\ req' = [req EXCEPT ![r] =
                              [rec EXCEPT !.pc = "s_get", !.op = RedisGetOp]]
                /\ UNCHANGED <<in_flight, task>>
        /\ UNCHANGED <<ext_vars, swr, l1, connected, now, nbuilds, search_vars>>

\* Redis answers the GET of the search key and the request resumes: fresh
\* hit, stale hit with a detached refresh, or miss.
SearchGetReturn(r) ==
    LET rec == req[r]
        ans == ServerGet(rec.key)
        cached == SLoads(ans.data)
        fresh_hit == IsFresh(now - ans.stored_at)
        got == [rec EXCEPT !.op = [@ EXCEPT !.st = "replied", !.has = ans.has,
                                            !.data = ans.data,
                                            !.stored_at = ans.stored_at],
                           !.got = l1[rec.key].writer]
    IN  /\ rec.pc = "s_get"
        /\ IF ~ans.has
           THEN /\ SearchMiss(r, got)
                /\ UNCHANGED <<swr, ch>>
           ELSE /\ UNCHANGED <<in_flight, task>>
                /\ ch' = LogSearchQuery(ch, r, TRUE)
                /\ req' = [req EXCEPT ![r] =
                              [got EXCEPT !.pc = "done",
                                          !.data = cached.tweets,
                                          !.next_cursor = cached.next_cursor,
                                          !.layer = IF fresh_hit THEN "redis" ELSE "swr",
                                          !.spawned = ~fresh_hit]]
                /\ swr' = IF fresh_hit THEN swr ELSE SpawnSearchRefresh(r, rec.key)
        /\ UNCHANGED <<ext_vars, l1, connected, now, nbuilds, ts_available, index_tasks>>

\* typesense.search returned the ids 1..n (n = 0 also when it failed): with
\* ids, _hydrate_tweets sends the MGET; with Redis not connected mget gives
\* [None] * n at once and nothing is hydrated.
TsReturn(r, n) ==
    LET rec == [req[r] EXCEPT !.ids = n]
    IN  /\ req[r].pc = "ts_search"
        /\ IF n > 0 /\ connected
           THEN /\ req' = [req EXCEPT ![r] =
                              [rec EXCEPT !.pc = "s_mget", !.op = RedisGetOp]]
                /\ UNCHANGED <<in_flight, task>>
           ELSE DoEnter(r, rec)
        /\ UNCHANGED <<ext_vars, swr, l1, connected, now, nbuilds, search_vars>>

\* Redis answers the MGET: h of the n tweets are hydrated; with enough
\* coverage the hydrated response is SET under the search key, else the
\* live fetch follows.
MgetReturn(r) ==
    LET rec == req[r]
        n == rec.ids
        h == Cardinality({i \in 1..n : ServerGet(TweetKey(i)).has})
        hrec == [rec EXCEPT !.hyd = h, !.op.st = "replied"]
    IN  /\ rec.pc = "s_mget"
        /\ IF CoverageOk(h, n)
           THEN /\ req' = [req EXCEPT ![r] =
                              [hrec EXCEPT !.pc = "ts_set", !.data = Hyd(h),
                                           !.next_cursor = None,
                                           !.op = SearchSetOp(Hyd(h), None)]]
                /\ UNCHANGED <<in_flight, task>>
           ELSE DoEnter(r, hrec)
        /\ UNCHANGED <<ext_vars, swr, l1, connected, now, nbuilds, search_vars>>

\* Redis applies the SET of the hydrated response and the request resumes:
\* the query is logged as a hit and (hydrated, None, "typesense") returned.
TsSetReturn(r) ==
    /\ req[r].pc = "ts_set"
    /\ l1' = ServerStore(req[r].key, req[r].op, TTL_SEARCH, r)
    /\ ch' = LogSearchQuery(ch, r, TRUE)
    /\ req' = [req EXCEPT ![r].pc = "done", ![r].layer = "typesense",
                          ![r].op.st = "replied"]
    /\ UNCHANGED <<ext_vars, in_flight, task, swr, connected, now, nbuilds,
                   ts_available, index_tasks>>

\* ---------------------------------------------- _write_through_search
\* A write-through is run by a request (writer id r) or by the refresh task
\* a request spawned (writer id SwrWriter(r)).
Writers == Searchers \cup {SwrWriter(r) : r \in Searchers}
WtOf(w) == IF w > 0 THEN req[w] ELSE swr[0 - w]
WtState(w) == IF w > 0 THEN req[w].pc ELSE swr[0 - w].state

\* The end of _write_through_search for tweet_dicts v and what its caller
\* does next without suspending: the index task is created and the tweets
\* are buffered; a request logs the query as a miss and returns live, a
\* refresh task ends.
WtFinish(w, v, c) ==
    LET buffered == IF Truthy(v) THEN BufferTweets(ch, v) ELSE ch
    IN  /\ index_tasks' = IF Truthy(v) THEN index_tasks + 1 ELSE index_tasks
        /\ IF w > 0
           THEN /\ ch' = LogSearchQuery(buffered, w, FALSE)
                /\ req' = [req EXCEPT ![w].pc = "done", ![w].layer = "live",
                                      ![w].data = v, ![w].next_cursor = c,
                                      ![w].op.st = "replied"]
                /\ UNCHANGED swr
           ELSE /\ ch' = buffered
                /\ swr' = [swr EXCEPT ![0 - w].state = "done",
                                      ![0 - w].data = v, ![0 - w].next_cursor = c,
                                      ![0 - w].op.st = "replied"]
                /\ UNCHANGED req

\* An exception leaves _write_through_search: the request raises it, the
\* refresh task catches and prints it.
WtRaise(w, e) ==
    /\ UNCHANGED <<index_tasks, ch>>
    /\ IF w > 0
       THEN /\ req' = [req EXCEPT ![w].pc = "raised", ![w].exc = e,
                                  ![w].op.st = "replied"]
            /\ UNCHANGED swr
       ELSE /\ swr' = [swr EXCEPT ![0 - w].state = "failed",
                                  ![0 - w].op.st = "replied"]
            /\ UNCHANGED req

\* The pipeline of SETs for the tweets with an id is sent.
WtSendPipeline(w) ==
    LET op == [WtOf(w).op EXCEPT !.kind = "pipe", !.st = "sent", !.at = now,
                                 !.stored_at = now]
    IN  /\ UNCHANGED <<index_tasks, ch>>
        /\ IF w > 0
           THEN /\ req' = [req EXCEPT ![w].pc = "wt_pipe", ![w].op = op]
                /\ UNCHANGED swr
           ELSE /\ swr' = [swr EXCEPT ![0 - w].state = "wt_pipe", ![0 - w].op = op]
                /\ UNCHANGED req

\* Redis applies the SET of the search response and the writer resumes in
\* _write_through_search: the items are computed and the pipeline sent.
WtSetReturn(w) ==
    LET rec == WtOf(w)
        v == rec.data
        it == WriteThroughItems(v)
    IN  /\ WtState(w) = "wt_set"
        /\ l1' = ServerStore(rec.key, rec.op, TTL_SEARCH, w)
        /\ IF Truthy(v) /\ it.exc # "none"
           THEN WtRaise(w, it.exc)
           ELSE IF Truthy(v) /\ it.ids # {}
           THEN WtSendPipeline(w)
           ELSE WtFinish(w, v, rec.next_cursor)
        /\ UNCHANGED <<ext_vars, in_flight, task, connected, now, nbuilds, ts_available>>

\* Redis applies the pipeline and the writer resumes: the write-through ends.
WtPipeReturn(w) ==
    LET rec == WtOf(w)
        ids == WriteThroughItems(rec.data).ids
    IN  /\ WtState(w) = "wt_pipe"
        /\ l1' = [k \in L1Keys |->
                    IF \E i \in ids : k = TweetKey(i)
                    THEN [has |-> TRUE, data |-> Dumps(PyDict(rec.data.n)),
                          stored_at |-> rec.op.stored_at,
                          expires_at |-> now + TTL_TWEET, writer |-> w]
                    ELSE l1[k]]
        /\ WtFinish(w, rec.data, rec.next_cursor)
        /\ UNCHANGED <<ext_vars, in_flight, task, connected, now, nbuilds, ts_available>>

\* fetch_fn() returned in _swr_refresh_search: the pair is unpacked and the
\* write-through begins; with Redis not connected it runs through at once.
SearchRefreshBuilt(r) ==
    LET u == Unpack2(RC(swr[r].num))
    IN  /\ swr[r].state = "running"
        /\ swr[r].kind = "search"
        /\ IF connected
           THEN /\ swr' = [swr EXCEPT ![r].state = "wt_set",
                                      ![r].data = u[1], ![r].next_cursor = u[2],
                                      ![r].op = SearchSetOp(u[1], u[2])]
                /\ UNCHANGED <<req, ch, index_tasks>>
           ELSE IF Truthy(u[1]) /\ WriteThroughItems(u[1]).exc # "none"
           THEN WtRaise(SwrWriter(r), WriteThroughItems(u[1]).exc)
           ELSE WtFinish(SwrWriter(r), u[1], u[2])
        /\ UNCHANGED <<ext_vars, in_flight, task, l1, connected, now, nbuilds, ts_available>>

\* The clock advances.
Tick ==
    /\ now + TickStep <= MaxNow
    /\ now' = now + TickStep
    /\ UNCHANGED <<ext_vars, in_flight, task, req, swr, l1, connected, nbuilds>>
    /\ UNCHANGED search_vars

\* ------------------------------------------------------------------- Init
\* ClickHouseWriter.__init__: empty buffers, not available.
NoClickHouse == [available |-> FALSE, queries |-> {}, tweets |-> 0]

\* An envelope left under the key by an earlier _swr_refresh, written at
\* time 0: L1 outlives the process.
OldEntry == [has |-> TRUE, data |-> Dumps(PyDict(0)), stored_at |-> 0,
             expires_at |-> TTL_PROFILE, writer |-> 0]

\* CacheManager.__init__ and connect(): nothing in flight; Redis reachable or
\* not; L1 empty or holding an earlier envelope.
Init ==
    /\ in_flight = [k \in L1Keys |-> NoTask]
    /\ task = [t \in Procs |-> NoTaskRec]
    /\ req = [r \in Procs |-> IdleReq]
    /\ swr = [r \in Procs |-> NoSwr]
    /\ l1 \in {[k \in L1Keys |-> NoEntry],
               [k \in L1Keys |-> IF k \in CacheKeys THEN OldEntry ELSE NoEntry]}
    /\ connected \in BOOLEAN
    /\ now = 0
    /\ nbuilds = 0
    /\ ts_available = FALSE
    /\ ch = NoClickHouse
    /\ index_tasks = 0
    /\ NoKeyWork
    /\ NoPoolWork
    /\ NoRestWork

\* Callers of Coalescer.do alone, with failing builds and cancellation.
InitCoalescer ==
    /\ Init
    /\ connected = FALSE
    /\ l1 = [k \in L1Keys |-> NoEntry]

NextCoalescer ==
    \/ \E r \in Callers, k \in Keys : DoCall(r, k)
    \/ \E t \in Callers : TaskStart(t)
    \/ \E t \in Callers : TaskSucceed(t)
    \/ \E t \in Callers : TaskFail(t)
    \/ \E t \in Callers : TaskCancelled(t)
    \/ \E r \in Callers : Wake(r)
    \/ \E r \in Callers : Cancel(r)

SpecCoalescer == InitCoalescer /\ [][NextCoalescer]_vars

\* get_or_fetch callers over the coalescer and L1, with the clock.
NextCache ==
    \/ \E r \in Reqs, k \in CacheKeys, fresh \in BOOLEAN : GetOrFetch(r, k, fresh)
    \/ \E r \in Reqs : L1ServeGet(r)
    \/ \E r \in Reqs : GetReturn(r)
    \/ \E t \in Reqs : TaskStart(t)
    \/ \E t \in Reqs : TaskSucceed(t)
    \/ \E t \in Reqs : TaskFail(t)
    \/ \E r \in Reqs : Wake(r)
    \/ \E r \in Reqs : L1ServeSet(r)
    \/ \E r \in Reqs : SetReturn(r)
    \/ \E r \in Reqs : L1Timeout(r)
    \/ \E r \in Reqs : SwrStart(r)
    \/ \E r \in Reqs : SwrBuildOk(r)
    \/ \E r \in Reqs : SwrBuildFail(r)
    \/ \E r \in Reqs : L1ServeSwrSet(r)
    \/ \E r \in Reqs : SwrSetReturn(r)
    \/ \E r \in Reqs : SwrTimeout(r)
    \/ Tick

SpecCache == Init /\ [][NextCache]_vars

\* The event loop runs every ready task, the upstream call of a refresh
\* returns or raises, and the Redis server processes what it was sent.
FairRefresh ==
    /\ WF_vars(\E r \in Reqs : SwrStart(r))
    /\ WF_vars(\E r \in Reqs : SwrBuildOk(r) \/ SwrBuildFail(r))
    /\ WF_vars(\E r \in Reqs : L1ServeSwrSet(r))
    /\ WF_vars(\E r \in Reqs : SwrSetReturn(r) \/ SwrTimeout(r))

\* The start a refresh needs: Redis connected and L1 holding an earlier
\* envelope, which turns stale with the first Tick.
InitStale ==
    /\ Init
    /\ connected
    /\ \A k \in CacheKeys : l1[k] = OldEntry

SpecCacheFair == InitStale /\ [][NextCache]_vars /\ FairRefresh

\* A search response left in L1 by an earlier _swr_refresh_search, `age`
\* seconds before the start, and a tweet left by it.
OldSearchEntry(age) ==
    [has |-> TRUE, data |-> SDumps(SearchResp(Recs(0), BuiltCursor)),
     stored_at |-> 0 - age, expires_at |-> TTL_SEARCH - age, writer |-> 0]
OldTweet == [has |-> TRUE, data |-> Dumps(PyDict(0)), stored_at |-> 0,
             expires_at |-> TTL_TWEET, writer |-> 0]

\* What L1 holds at the start: the first-page response and the profile
\* (or neither) and the first h0 of the tweets L2 knows.
L1AtStart(has_old, age, h0) ==
    [k \in L1Keys |->
        IF k = SearchKey(None) /\ has_old THEN OldSearchEntry(age)
        ELSE IF k \in CacheKeys /\ has_old
        THEN [OldEntry EXCEPT !.stored_at = 0 - age,
                              !.expires_at = TTL_PROFILE - age]
        ELSE IF \E i \in 1..h0 : k = TweetKey(i) THEN OldTweet
        ELSE NoEntry]

\* The serving of search and profile requests over a time span short
\* against SWR_THRESHOLD.  Redis and Typesense reachable or not, ClickHouse
\* connected.  L1 holds the first-page response and the profile, young or
\* SWR_THRESHOLD old, or, where L2 can be consulted, none, too few or enough
\* of the tweets L2 knows.
InitServe ==
    /\ in_flight = [k \in L1Keys |-> NoTask]
    /\ task = [t \in Procs |-> NoTaskRec]
    /\ req = [r \in Procs |-> IdleReq]
    /\ swr = [r \in Procs |-> NoSwr]
    /\ connected \in BOOLEAN
    /\ ts_available \in BOOLEAN
    /\ ch = [NoClickHouse EXCEPT !.available = TRUE]
    /\ \/ l1 = L1AtStart(FALSE, 0, 0)
       \/ /\ connected
          /\ \E age \in {0, SWR_THRESHOLD} : l1 = L1AtStart(TRUE, age, 0)
       \/ /\ connected /\ ts_available
          /\ \E h0 \in {MaxIds - 2, MaxIds - 1} : l1 = L1AtStart(FALSE, 0, h0)
    /\ now = 0
    /\ nbuilds = 0
    /\ index_tasks = 0
    /\ NoKeyWork
    /\ NoPoolWork
    /\ NoRestWork

NextServe ==
    \/ \E r \in Searchers, c \in Cursors, fresh \in BOOLEAN : Search(r, c, fresh)
    \/ \E r \in Searchers, k \in CacheKeys, fresh \in BOOLEAN : GetOrFetch(r, k, fresh)
    \/ \E r \in Searchers : L1ServeGet(r)
    \/ \E r \in Searchers : GetReturn(r)
    \/ \E r \in Searchers : L1ServeSet(r)
    \/ \E r \in Searchers : SetReturn(r)
    \/ \E r \in Searchers : SwrBuildOk(r)
    \/ \E r \in Searchers : L1ServeSwrSet(r)
    \/ \E r \in Searchers : SwrSetReturn(r)
    \/ \E r \in Searchers : SearchGetReturn(r)
    \/ \E r \in Searchers, n \in {0, MaxIds} : TsReturn(r, n)
    \/ \E r \in Searchers : MgetReturn(r)
    \/ \E r \in Searchers : TsSetReturn(r)
    \/ \E t \in Searchers : TaskStart(t)
    \/ \E t \in Searchers : TaskSucceed(t)
    \/ \E t \in Searchers : TaskFail(t)
    \/ \E r \in Searchers : Wake(r)
    \/ \E w \in Writers : WtSetReturn(w)
    \/ \E w \in Writers : WtPipeReturn(w)
    \/ \E r \in Searchers : SwrStart(r)
    \/ \E r \in Searchers : SwrBuildFail(r)
    \/ \E r \in Searchers : SearchRefreshBuilt(r)

SpecServe == InitServe /\ [][NextServe]_vars

\* Two requests arrive, on any of the three endpoints with any arguments.
InitKeys ==
    /\ in_flight = [k \in L1Keys |-> NoTask]
    /\ task = [t \in Procs |-> NoTaskRec]
    /\ req = [r \in Procs |-> IdleReq]
    /\ swr = [r \in Procs |-> NoSwr]
    /\ l1 = [k \in L1Keys |-> NoEntry]
    /\ connected = TRUE
    /\ now = 0
    /\ nbuilds = 0
    /\ ts_available = FALSE
    /\ ch = NoClickHouse
    /\ index_tasks = 0
    /\ key_req \in KeyRequests \X KeyRequests
    /\ key_out = <<NoKey, NoKey>>
    /\ NoPoolWork
    /\ NoRestWork

\* Request i reaches the line of its handler that builds cache_key.
BuildKey(i) ==
    /\ key_out[i] = NoKey
    /\ key_out' = [key_out EXCEPT ![i] = CacheKeyOf(key_req[i])]
    /\ UNCHANGED <<serve_vars, key_req, pool_vars, rest_vars>>

NextKeys == \E i \in 1..2 : BuildKey(i)

SpecKeys == InitKeys /\ [][NextKeys]_vars


\* get_pool() chose a backend; the pool is empty and no request has come.
InitPool ==
    /\ in_flight = [k \in L1Keys |-> NoTask]
    /\ task = [t \in Procs |-> NoTaskRec]
    /\ req = [r \in Procs |-> IdleReq]
    /\ swr = [r \in Procs |-> NoSwr]
    /\ l1 = [k \in L1Keys |-> NoEntry]
    /\ connected = TRUE
    /\ now = 0
    /\ nbuilds = 0
    /\ ts_available = FALSE
    /\ ch = NoClickHouse
    /\ index_tasks = 0
    /\ NoKeyWork
    /\ pool \in {EmptyPool("memory"), EmptyPool("redis")}
    /\ token_sets = [c \in Creds |-> NewTokenSet(0)]
    /\ minted = 0
    /\ fetch = [u \in Fetchers |-> IdleFetch]
    /\ pool_now = 0
    /\ NoRestWork

NextPool ==
    \/ \E u \in Fetchers, created \in BOOLEAN : GetClient(u, created)
    \/ \E u \in Fetchers, created \in BOOLEAN : CheckTokenHealth(u, created)
    \/ \E u \in Fetchers, st \in Outcomes : ClientResponse(u, st)
    \/ \E u \in Fetchers : FetchReturn(u)
    \/ Replenish
    \/ PoolTick

SpecPool == InitPool /\ [][NextPool]_vars


\* The serving engine at rest.
NoServeWork ==
    /\ in_flight = [k \in L1Keys |-> NoTask]
    /\ task = [t \in Procs |-> NoTaskRec]
    /\ req = [r \in Procs |-> IdleReq]
    /\ swr = [r \in Procs |-> NoSwr]
    /\ l1 = [k \in L1Keys |-> NoEntry]
    /\ connected = TRUE
    /\ now = 0
    /\ nbuilds = 0
    /\ ts_available = FALSE
    /\ ch = NoClickHouse
    /\ index_tasks = 0

\* Both pools empty, nothing lent.
InitCallers ==
    /\ NoServeWork
    /\ NoKeyWork
    /\ NoPoolWork
    /\ NoRestWork

NextCallers ==
    \/ \E rc \in StartCounts : CallerAdd(rc)
    \/ CallerTake
    \/ \E c \in Creds : CallerUse(c)
    \/ \E c \in Creds, success \in BOOLEAN : CallerReturn(c, success)
    \/ PoolTick

SpecCallers == InitCallers /\ [][NextCallers]_vars

\* The account pool alone: accounts loaded, no request yet.
InitAccounts ==
    /\ NoServeWork
    /\ NoKeyWork
    /\ NoPoolWork
    /\ NoRestWork

NextAccounts ==
    \/ PrewarmAll
    \/ \E r \in AcctReqs : AcctAcquire(r)
    \/ \E r \in AcctReqs, st \in AcctOutcomes : AcctRelease(r, st)
    \/ \E t \in AcctMoments : AcctTick(t)

SpecAccounts == InitAccounts /\ [][NextAccounts]_vars

\* The session pool alone, with or without proxies configured.
InitSessions ==
    /\ NoServeWork
    /\ NoKeyWork
    /\ NoPoolWork
    /\ NoCallerWork
    /\ NoAcctWork
    /\ NoSessWork
    /\ NoTxnWork
    /\ NoWriterWork

NextSessions ==
    \/ SessPrewarm
    \/ \E r \in SessReqs, proxy \in Proxies : SessAcquire(r, proxy)
    \/ \E r \in SessReqs : SessRelease(r)
    \/ Shutdown

SpecSessions == InitSessions /\ [][NextSessions]_vars

\* Both kinds of session bucket.  The two pools share no state, so a run of
\* one is explored while the other is at rest; an account carries its own
\* proxy, so the accounts run without the ProxyManager's.  The shutdown of
\* lifespan ends a run of the accounts as it ends one of the session pool.
NextBuckets ==
    \/ NoAcctWork /\ NextSessions
    \/ NoSessWork /\ proxy_urls = {} /\ NextAccounts
    \/ ~NoAcctWork /\ Shutdown

SpecBuckets == InitSessions /\ [][NextBuckets]_vars

\* The transaction-id generator alone, from import on.
InitTxn ==
    /\ NoServeWork
    /\ NoKeyWork
    /\ NoPoolWork
    /\ NoRestWork

NextTxn ==
    \/ \E ok \in BOOLEAN : BackgroundInit(ok)
    \/ \E t \in GenThreads, call \in TxnCalls : GenCall(t, call)
    \/ \E t \in GenThreads : WaitEnd(t)
    \/ \E t \in GenThreads, ok \in BOOLEAN : FetchEnd(t, ok)
    \/ \E m \in TxnMoments : TxnTick(m)

SpecTxn == InitTxn /\ [][NextTxn]_vars

\* The ClickHouse writer alone, from the end of connect() on.
InitWriter ==
    /\ NoServeWork
    /\ NoKeyWork
    /\ NoPoolWork
    /\ NoCallerWork
    /\ NoAcctWork
    /\ NoSessWork
    /\ proxy_urls = {}
    /\ NoTxnWork
    /\ \E up \in BOOLEAN : writer = NewWriter(up)

NextWriter ==
    \/ \E kind \in EventKinds : Enqueue(kind)
    \/ FlushWake
    \/ \E who \in FlushTasks, ok \in BOOLEAN : InsertDone(who, ok)
    \/ CloseCall
    \/ LoopCancelled
    \/ CloseResume

SpecWriter == InitWriter /\ [][NextWriter]_vars


\* ================================================================ claims
\* C1: for every key, at most one build started through the coalescer is
\* executing at any instant.
C1_OneBuildPerKey ==
    \A k \in Keys :
        Cardinality({t \in Procs : task[t].state = "running" /\ task[t].key = k}) <= 1

\* C2: cancelling a waiter ends only that waiter's wait: a caller ends with
\* CancelledError only if it was cancelled itself or the originator of the
\* build it awaits was; the build of an uncancelled originator is never
\* cancelled.
C2_WaiterCancelSparesBuild ==
    /\ \A t \in Procs : task[t].state = "cancelled" => req[t].ext_cancelled
    /\ \A r \in Procs : req[r].pc = "cancelled"
                            => req[r].ext_cancelled \/ req[req[r].awaiting].ext_cancelled

\* C3: a failed build is out of the in-flight map as soon as it has failed,
\* so a do() call that arrives after the failure never awaits or inherits
\* it: it awaits a build of its own or one registered after the failure.
C3_FailureNotInherited ==
    /\ \A k \in Keys : in_flight[k] # NoTask => task[in_flight[k]].state # "failed"
    /\ \A r \in Procs :
          req[r].late_for # {} =>
              /\ req[r].awaiting \in Procs \ req[r].late_for
              /\ req[r].orig <=> req[r].awaiting = r

C3_Witness ==
    \E r \in Procs : /\ req[r].late_for # {}
                     /\ req[r].orig
                     /\ task[r].state = "ok"
                     /\ req[r].pc = "done"

\* C4: a caller that finds a build registered starts none and returns that
\* build's result with coalesced = true; the registering caller returns the
\* same result with coalesced = false; once the registering caller is
\* through, its registration is gone.
C4_CoalescedResult ==
    \A r \in Procs : req[r].via = "do" =>
        /\ (req[r].pc = "done" /\ ~req[r].orig) =>
              /\ task[r].state = "none"
              /\ task[req[r].awaiting].state = "ok"
              /\ req[r].data = PyTuple(task[req[r].awaiting].num, TRUE)
        /\ (req[r].pc = "done" /\ req[r].orig) =>
              /\ req[r].awaiting = r
              /\ task[r].state = "ok"
              /\ req[r].data = PyTuple(task[r].num, FALSE)
        /\ (req[r].pc \in {"done", "raised", "cancelled"} /\ req[r].orig) =>
              in_flight[req[r].key] # r

C4_Witness ==
    \E r, w \in Procs : /\ r # w
                        /\ req[r].pc = "done" /\ req[r].orig
                        /\ req[w].pc = "done" /\ ~req[w].orig
                        /\ req[w].awaiting = r
                        /\ req[w].data.n = req[r].data.n

\* No build, refresh or Redis command has failed so far.
NoFailure ==
    \A p \in Procs : /\ task[p].state # "failed"
                     /\ swr[p].state # "failed"
                     /\ req[p].pc # "raised"

\* Request r has invoked fetch_fn, in its coalescer task or in its refresh.
Built(r) == task[r].num > 0 \/ swr[r].num > 0

\* C5: a get_or_fetch call made with identical arguments (here: fresh
\* unset) while an earlier call for the key has not returned does not
\* invoke the build again: the two calls never both invoke fetch_fn.
C5_NoBuildWhileInFlight ==
    \A r \in Reqs : \A q \in req[r].overlap :
        (NoFailure /\ ~req[r].fresh) => ~(Built(r) /\ Built(q))

\* C6: cold miss then coalesced wait: the originator and the waiter both
\* return exactly the dict the build produced, both with layer live, and
\* the waiter invoked no build.
C6_ColdMissCoalesced ==
    \A r, w \in Reqs :
        ( /\ r # w
          /\ req[r].via = "gof" /\ req[w].via = "gof"
          /\ ~req[r].fresh /\ ~req[w].fresh
          /\ req[r].pc = "done" /\ req[r].orig
          /\ req[w].pc = "done" /\ ~req[w].orig /\ req[w].awaiting = r
          /\ req[w].waited /\ connected )
        => /\ req[r].data = PyDict(task[r].num)
           /\ req[w].data = PyDict(task[r].num)
           /\ req[r].layer = "live" /\ req[w].layer = "live"
           /\ task[w].num = 0

\* C7: with L1 connected, a get_or_fetch that has returned on the live path
\* had its SET of the returned value applied by L1 before it returned; the
\* entry that SET wrote, as long as no other writer replaced it, carries the
\* serialised returned value, and is unexpired at the moment of return.
C7_WriteThroughBeforeReturn ==
    \A r \in Reqs :
        (req[r].pc = "done" /\ req[r].layer = "live" /\ connected) =>
            LET op == req[r].op
                e == l1[req[r].key]
            IN  /\ op.kind = "set" /\ op.st = "replied"
                /\ op.data = Dumps(req[r].data)
                /\ e.has
                /\ e.writer = r =>
                      /\ e.data = Dumps(req[r].data)
                      /\ e.stored_at = op.stored_at
                      /\ (now - op.at < CONNECT_TIMEOUT => now < e.expires_at)

C7_Witness ==
    \E r \in Reqs : /\ req[r].pc = "done" /\ req[r].layer = "live" /\ connected
                    /\ l1[req[r].key].writer = r
                    /\ now < l1[req[r].key].expires_at

\* The step in which redis.get hands request r an envelope.
GotEnvelope(r) ==
    /\ req[r].pc = "l1_get"
    /\ req'[r].pc \notin {"l1_get", "raised"}
    /\ req[r].op.has

\* C8: an envelope that redis.get returned is classified by now - stored_at:
\* younger than SWR_THRESHOLD it is returned with layer redis and no build
\* and no refresh start; otherwise it is returned with layer swr; in neither
\* case does the request go on to the coalescer as for a miss.
C8_ClassifiedByAge ==
    [][\A r \in Reqs : GotEnvelope(r) =>
          LET age == now - req[r].op.stored_at
          IN  /\ req'[r].pc = "done"
              /\ req'[r].data = Loads(req[r].op.data)
              /\ req'[r].awaiting = NoTask /\ task' = task /\ in_flight' = in_flight
              /\ nbuilds' = nbuilds
              /\ age < SWR_THRESHOLD =>
                    req'[r].layer = "redis" /\ swr' = swr /\ ~req'[r].spawned
              /\ age >= SWR_THRESHOLD => req'[r].layer = "swr"
      ]_vars

C8_Witness ==
    \E r, q \in Reqs :
        /\ req[r].pc = "done" /\ req[r].layer = "redis"
        /\ req[q].pc = "done" /\ req[q].layer = "swr"
        /\ req[q].op.stored_at + SWR_THRESHOLD <= now

\* C9: reads of one and the same stale envelope spawn one refresh in all.
C9_OneRefreshPerEnvelope ==
    \A r, q \in Reqs :
        ( /\ r # q
          /\ req[r].spawned /\ req[q].spawned
          /\ req[r].key = req[q].key )
        => <<req[r].op.stored_at, req[r].op.data>>
              # <<req[q].op.stored_at, req[q].op.data>>

\* C10: a stale hit returns the stale data with layer swr in the very step
\* that creates the refresh task, before that task has run at all, and what
\* it returned is not changed by anything the refresh does afterwards; the
\* refresh task, once created, can take its first step whatever has become
\* of the request.
C10_StaleReturnsAtOnce ==
    [][\A r \in Reqs :
          /\ (req[r].pc = "l1_get" /\ req'[r].spawned) =>
                /\ req'[r].pc = "done" /\ req'[r].layer = "swr"
                /\ req'[r].data = Loads(req[r].op.data)
                /\ swr'[r].state = "scheduled"
                /\ nbuilds' = nbuilds
          /\ (req[r].pc = "done" /\ req[r].layer = "swr") =>
                /\ req'[r] = req[r]
                /\ swr[r].state = "scheduled" =>
                      (swr'[r].state \in {"scheduled", "running"})
          /\ (req[r].pc = "done" /\ swr[r].state = "scheduled") =>
                ENABLED SwrStart(r)
      ]_vars

C10_Witness ==
    \E r \in Reqs : /\ req[r].pc = "done" /\ req[r].layer = "swr"
                    /\ swr[r].state = "done"
                    /\ l1[req[r].key].writer = SwrWriter(r)

\* The refresh spawned by request r has ended without its SET being applied
\* for a reason the code tolerates: the build raised, or Redis was not
\* connected, or Redis did not answer within the socket timeout.
RefreshExcused(r) ==
    \/ ~connected
    \/ swr[r].state = "failed"
    \/ swr[r].op.kind = "set" /\ now - swr[r].op.at >= CONNECT_TIMEOUT

\* C11: a refresh spawned by a stale hit whose build succeeds gets, with L1
\* connected and answering, its new envelope applied by L1; and a
\* get_or_fetch for the key called after that write (no other write to the
\* key coming in before its GET is answered), while the envelope is younger
\* than SWR_THRESHOLD, returns the refreshed dict with layer redis and
\* starts no build.
C11_RefreshThenCacheHit ==
    /\ \A r \in Reqs :
          (swr[r].state \in {"scheduled", "running"})
              ~> (swr[r].op.st = "replied" \/ RefreshExcused(r))
    /\ [](\A r, q \in Reqs :
            ( /\ req[q].via = "gof" /\ ~req[q].fresh
              /\ req[q].seen = SwrWriter(r) /\ req[q].got = SwrWriter(r)
              /\ req[q].pc \notin {"idle", "l1_get", "raised"}
              /\ req[q].op.at - swr[r].op.stored_at < SWR_THRESHOLD )
            => /\ req[q].pc = "done"
               /\ req[q].layer = "redis"
               /\ req[q].data = PyDict(swr[r].num)
               /\ task[q].state = "none")

C11_Witness ==
    \E r, q \in Reqs :
        /\ req[r].layer = "swr" /\ swr[r].state = "done"
        /\ req[q].seen = SwrWriter(r)
        /\ req[q].pc = "done" /\ req[q].layer = "redis"
        /\ req[q].data = PyDict(swr[r].num)

\* C13: a get_or_fetch called with fresh set never reads L1: what it returns
\* is the value its build produced, its write-through stores that value,
\* and the layer is live.
C13_FreshBypassesEnvelope ==
    \A r \in Reqs :
        (req[r].via = "gof" /\ req[r].fresh /\ req[r].pc = "done" /\ connected) =>
            LET built == PyDict(task[req[r].awaiting].num)
            IN  /\ req[r].layer = "live"
                /\ req[r].got = 0 /\ req[r].op.kind = "set"
                /\ req[r].data = built
                /\ req[r].op.data = Dumps(built)

\* C15: get_or_fetch never fails because of the cache backend: no call ends
\* with an exception raised by a Redis command, and with Redis not
\* connected every call that returns is served by a build with layer live.
C15_DegradesOpen ==
    \A r \in Reqs :
        /\ req[r].exc # "l1"
        /\ (~connected /\ req[r].pc = "done") =>
              (req[r].layer = "live" /\ req[r].awaiting # NoTask)

\* C12: when the build of a detached refresh (of get_or_fetch or of the
\* search operation) fails, the step in which it fails changes nothing but
\* the refresh task: no request and no L1 entry; and a refresh whose build
\* failed has written nothing to L1.
C12_RefreshFailureOnlyLogged ==
    /\ [][\A r \in Searchers :
            (swr[r].state = "running" /\ swr'[r].state = "failed") =>
                /\ l1' = l1 /\ req' = req /\ task' = task
                /\ in_flight' = in_flight /\ ch' = ch
         ]_vars
    /\ [](\A r \in Searchers :
            swr[r].state = "failed" =>
                /\ \A k \in L1Keys : l1[k].writer # SwrWriter(r)
                /\ req[r].pc = "done" /\ req[r].layer = "swr")

C12_Witness ==
    \E r \in Searchers :
        /\ swr[r].state = "failed" /\ swr[r].kind = "search"
        /\ req[r].pc = "done"
        /\ l1[req[r].key] = OldSearchEntry(SWR_THRESHOLD)

C16_L2OnlyFirstPage ==
    \A r \in Searchers :
        /\ req[r].l2 =>
              /\ req[r].via = "search" /\ ~req[r].fresh
              /\ NotCursor(req[r].cursor)
              /\ ts_available
        /\ req[r].pc = "ts_search" =>
              (~connected \/ (req[r].op.kind = "get" /\ ~req[r].op.has))
        /\ (req[r].via = "search" /\ ~NotCursor(req[r].cursor)) =>
              /\ ~req[r].l2
              /\ req[r].pc \notin {"ts_search", "s_mget", "ts_set"}
              /\ req[r].pc = "done" => req[r].layer \in {"redis", "swr", "live"}

C16_Witness ==
    \E r \in Searchers :
        /\ req[r].via = "search" /\ req[r].cursor = "c1" /\ ~req[r].fresh
        /\ ts_available /\ connected
        /\ req[r].pc = "do_wait" /\ ~req[r].l2

\* The request is past the L2 search and the hydration.
PastL2(r) == req[r].l2 /\ req[r].pc \notin {"ts_search", "s_mget"}

\* C17: with n >= 1 ids from L2 of which h were hydrated: if h/n >= 0.8 the
\* hydrated records are stored under the search key and returned with
\* layer typesense and next_cursor None, without going to the coalescer;
\* if h/n < 0.8 or L2 gave no ids, the request goes on to the live build.
C17_HydrationCoverage ==
    \A r \in Searchers : PastL2(r) =>
        LET n == req[r].ids
            h == req[r].hyd
        IN  IF n >= 1 /\ 10 * h >= 8 * n
            THEN /\ req[r].awaiting = NoTask /\ task[r].state = "none"
                 /\ req[r].pc \in {"ts_set", "done"}
                 /\ req[r].data = Hyd(h) /\ req[r].next_cursor = None
                 /\ req[r].op.data = SDumps(SearchResp(Hyd(h), None))
                 /\ req[r].pc = "done" =>
                       /\ req[r].layer = "typesense"
                       /\ l1[req[r].key].writer = r =>
                             l1[req[r].key].data = req[r].op.data
            ELSE /\ req[r].awaiting # NoTask
                 /\ req[r].layer # "typesense"

C17_Witness ==
    \E r \in Searchers :
        /\ req[r].pc = "done" /\ req[r].layer = "typesense"
        /\ req[r].ids = MaxIds /\ req[r].hyd = MaxIds - 1
        /\ l1[req[r].key].writer = r

\* C18: a search whose live build returned tweet_dicts R and cursor c goes
\* through its write-through and returns (R, c, live); L1 then holds the
\* response {R, c} under the search key and a tweet envelope for every
\* record of R with an id.
C18_LiveSearchWriteThrough ==
    \A r \in Searchers :
        ( /\ req[r].via = "search"
          /\ req[r].awaiting # NoTask
          /\ task[req[r].awaiting].state = "ok"
          /\ req[r].pc # "do_wait" )
        => LET n == task[req[r].awaiting].num
           IN  /\ req[r].pc \in {"wt_set", "wt_pipe", "done"}
               /\ req[r].data = Recs(n) /\ req[r].next_cursor = BuiltCursor
               /\ (req[r].pc = "done" /\ connected) =>
                     /\ req[r].layer = "live"
                     /\ l1[req[r].key].writer = r =>
                           l1[req[r].key].data = SDumps(SearchResp(Recs(n), BuiltCursor))
                     /\ \A i \in WriteThroughItems(Recs(n)).ids :
                           l1[TweetKey(i)].has

\* The resource a request names: usernames are matched without case, and an
\* absent cursor and an empty one both name the first page.
ResourceOf(rq) ==
    IF rq.ep = "get_user" THEN <<"user by name", Lower(rq.args[1])>>
    ELSE IF rq.ep = "get_user_by_rest_id" THEN <<"user by id", rq.args[1]>>
    ELSE <<"search", rq.args[1], rq.args[2], rq.args[3],
           CursorOrEmpty(rq.args[4])>>

\* C19: two requests that name different resources (a profile by username
\* against a profile by numeric id, or two different (query, product, count,
\* cursor) tuples) never get the same cache key.
C19_KeysSeparateResources ==
    (key_out[1] # NoKey /\ key_out[2] # NoKey
        /\ ResourceOf(key_req[1]) # ResourceOf(key_req[2]))
        => key_out[1] # key_out[2]

\* The _fetch closure u works with TokenSet c: as its local token_set or as
\* the token_set of its client.
Holds(u, c) ==
    /\ fetch[u].pc \in {"fetching", "sending", "called_ok", "called_fail"}
    /\ c \in {fetch[u].token_set, fetch[u].client_ts}

\* The entries of pool P a get_token can hand out as TokenSet c.
QueuedIn(P, c) ==
    IF P.backend = "memory"
    THEN {i \in 1..Len(P.tokens) : P.tokens[i].ts = c}
    ELSE {e \in P.zset : e.id = TokenId(c)
                         /\ "guest_token" \in HGetAll(P.zhash, e.id)}

QueuedAs(c) == QueuedIn(pool, c)

\* C20: a guest credential is held by at most one user in flight: while a
\* user holds it no get_token can hand it out, and it is never queued in the
\* pool twice.
C20_OneHolderPerCredential ==
    \A c \in 1..minted :
        /\ \A u, v \in Fetchers : (Holds(u, c) /\ Holds(v, c)) => u = v
        /\ (\E u \in Fetchers : Holds(u, c)) => QueuedAs(c) = {}
        /\ Cardinality(QueuedAs(c)) <= 1

\* A user holds the credential get_token handed to it, while a credential
\* another user handed back after a request is queued once.
C20_Witness ==
    \E u \in Fetchers, c, d \in 1..minted :
        /\ Holds(u, c) /\ fetch[u].taken = c
        /\ d # c /\ token_sets[d].request_count > 0
        /\ Cardinality(QueuedAs(d)) = 1

\* The step in which u calls get_token: first thing in _get_client, or in
\* the health check of its client when the TokenSet in use is expired or
\* exhausted.
Takes(u) ==
    \/ fetch[u].pc = "idle" /\ fetch'[u].pc # "idle"
    \/ /\ fetch[u].pc = "fetching" /\ fetch'[u].pc # "fetching"
       /\ Expired(fetch[u].client_ts) \/ Exhausted(fetch[u].client_ts)

\* The queued entries that are not expired, each with its health.
QueuedValid(P) ==
    IF P.backend = "memory"
    THEN {[score |-> P.tokens[i].score, ts |-> P.tokens[i].ts] :
            i \in {j \in 1..Len(P.tokens) : ~Expired(P.tokens[j].ts)}}
    ELSE {[score |-> e[1].score, ts |-> e[2]] :
            e \in {x \in P.zset \X (1..minted) :
                     x[1].id = TokenId(x[2]) /\ ~Expired(x[2])}}

\* C21: get_token removes and returns a queued, non-expired credential of
\* the highest health, and returns none only when no non-expired credential
\* is queued.
C21_TakeReturnsHealthiest ==
    [][\A u \in Fetchers :
          Takes(u) =>
             IF QueuedValid(pool) = {} THEN fetch'[u].taken = NoToken
             ELSE \E e \in QueuedValid(pool) :
                    /\ fetch'[u].taken = e.ts
                    /\ \A f \in QueuedValid(pool) : f.score <= e.score
                    /\ e \notin QueuedValid(pool')]_vars

\* C23: a guest credential whose request the upstream answered with 429 or
\* 403 is dropped: once its _fetch has ended it is not queued in the pool.
C23_RateLimitedCredentialDropped ==
    \A u \in Fetchers :
        (fetch[u].pc = "raised" /\ fetch[u].status \in {"429", "403"})
            => QueuedAs(fetch[u].client_ts) = {}

\* How often c occurs in the sequence seq.
Occurrences(seq, c) == Cardinality({i \in 1..Len(seq) : seq[i] = c})

\* C24: every guest credential that get_token handed to a _fetch, in
\* _get_client or in the rotation of its client, has been passed to
\* return_token exactly once by the time the _fetch has ended, whichever way
\* it ended.
C24_TakenIsReturnedOnce ==
    \A u \in Fetchers :
        (fetch[u].pc \in {"done", "raised"} /\ fetch[u].taken # NoToken)
            => Occurrences(fetch[u].returned, fetch[u].taken) = 1

\* C22: a credential handed back with age > guest_token_ttl or with
\* request_count >= max_requests_per_token is in neither pool afterwards
\* and no later get_token hands it out.
C22_RetiredStaysOut ==
    \A c \in retired :
        /\ QueuedIn(mem_pool, c) = {}
        /\ QueuedIn(redis_pool, c) = {}
        /\ c \notin lent

\* An exhausted credential and an expired one have been handed back, and a
\* get_token has been answered since.
C22_Witness ==
    \E c, d \in retired :
        /\ Exhausted(c) /\ ~Expired(c)
        /\ Expired(d) /\ ~Exhausted(d)
        /\ last_call.op = "take"

\* C25: the in-process pool and the Redis pool answer every sequence of
\* add, take, return and clock advances alike: each get_token hands out the
\* same credential or none in both, and the pool sizes agree.
C25_BackendsAgree ==
    /\ last_call.mem = last_call.redis
    /\ last_call.exc = "None"
    /\ PoolSize(mem_pool) = PoolSize(redis_pool)

\* The requests that hold account a: acquire() returned it to them and they
\* have not released it.
Owners(a) == {r \in AcctReqs : acct_req[r].pc = "held" /\ acct_req[r].account = a}

\* C26: an account is owned by at most one in-flight request: between an
\* acquire() that returned account a and the release of a, no other
\* acquire() returns a.
C26_OneOwnerPerAccount ==
    \A a \in Accts : Cardinality(Owners(a)) <= 1

\* The accounts in rotation order from the round-robin index, and the
\* positions of those whose cooldown is over.
Rotation == [k \in 1..NumAccts |-> ((acct_index + k - 1) % NumAccts) + 1]
Cooling(a) == acct_now < accounts[a].rate_limited_until
Eligible == {k \in 1..NumAccts : ~Cooling(Rotation[k])}
FirstEligible == CHOOSE k \in Eligible : \A j \in Eligible : k <= j

\* C27: acquire() looks at no more than one rotation of the accounts from
\* the round-robin index, returns the first account in that order whose
\* cooldown is over (now >= rate_limited_until) and never a cooling one,
\* and returns none exactly when every account is cooling; a cooldown that
\* has lapsed needs no further action.
C27_AcquireScansOneRotation ==
    [][acquired' = acquired + 1 =>
          IF Eligible = {}
          THEN /\ last_acquire'.account = NoAccount
               /\ acct_index' = acct_index + NumAccts
          ELSE /\ last_acquire'.account = Rotation[FirstEligible]
               /\ ~Cooling(last_acquire'.account)
               /\ acct_index' = acct_index + FirstEligible]_vars

\* An account was released with 429 at time 0; the acquire() at 900 s
\* began its scan at an account that is still cooling, skipped it and
\* returned the account whose cooldown ends at 900 s.
C27_Witness ==
    LET a == last_acquire.account
    IN  /\ a # NoAccount
        /\ last_acquire.at = COOLDOWN_429
        /\ Len(last_acquire.scanned) = 2
        /\ Cooling(last_acquire.scanned[1])
        /\ accounts[a].rate_limited_until = COOLDOWN_429

\* C28: right after an account is released as failed with status 429 its
\* rate_limited_until is at least the time of the release plus 15 minutes,
\* and right after a release with status 403 at least that time plus 60
\* minutes.
C28_CooldownCoversRelease ==
    LET a == last_release.account
    IN  /\ last_release.status_code = 429 =>
              accounts[a].rate_limited_until >= last_release.at + COOLDOWN_429
        /\ last_release.status_code = 403 =>
              accounts[a].rate_limited_until >= last_release.at + COOLDOWN_403

\* The last release was one with 403, after time 0, and another account
\* carries the cooldown of a 429 released at time 0.
C28_Witness ==
    /\ last_release.status_code = 403
    /\ last_release.at > 0
    /\ \E a \in Accts \ {last_release.account} :
           accounts[a].rate_limited_until = COOLDOWN_429

\* C29: a session made for one egress is never used on another: through
\* every sequence of prewarm, acquire and release of the request paths, the
\* session that acquire(proxy) hands to a request was created with that
\* proxy.
C29_SessionKeepsItsEgress ==
    \A r \in SessReqs :
        sess_req[r].pc = "held" =>
            sessions[sess_req[r].session].proxies = sess_req[r].proxy

\* A request on a proxy holds a session that came out of that proxy's
\* bucket, where an earlier request had put it, while the bucket of the
\* direct route and the bucket of another proxy hold sessions too.
C29_Witness ==
    \E r \in SessReqs :
        /\ sess_req[r].pc = "held"
        /\ sess_req[r].warm
        /\ sess_req[r].proxy # NoProxy
        /\ \E k \in DOMAIN buckets \ {""} : buckets[k] # <<>>
        /\ "" \in DOMAIN buckets

\* The sessions of table S that are closed.
Closed(S) == {s \in 1..Len(S) : S[s].closed}
InQueue(q) == {q[i] : i \in 1..Len(q)}

\* C30: every bucket of the SessionPool holds at most max_per_proxy
\* sessions and every account's bucket at most MAX_SESSIONS_PER_ACCOUNT,
\* whatever prewarm, acquire and release calls were made; a session that
\* did not fit was closed, is in no bucket and is held by no request.
C30_BucketsBounded ==
    /\ \A k \in DOMAIN buckets :
          /\ Len(buckets[k]) <= SESSION_POOL_SIZE
          /\ InQueue(buckets[k]) \cap Closed(sessions) = {}
    /\ \A r \in SessReqs :
          sess_req[r].pc = "held" => sess_req[r].session \notin Closed(sessions)
    /\ \A a \in Accts :
          /\ Len(accounts[a]._sessions) <= MAX_SESSIONS_PER_ACCOUNT
          /\ InQueue(accounts[a]._sessions) \cap Closed(acct_sess) = {}
    /\ \A r \in AcctReqs :
          acct_req[r].pc = "held" => acct_req[r].session \notin Closed(acct_sess)

\* A pre-warmed session and a released one found their bucket full and
\* were closed, the bucket is full again, and a request holds a session it
\* was given afterwards.
C30_Witness ==
    /\ \E s \in Closed(sessions) : s <= PrewarmCount
    /\ \E s \in Closed(sessions) : s > PrewarmCount
    /\ \E k \in DOMAIN buckets : Len(buckets[k]) = SESSION_POOL_SIZE
    /\ \E r \in SessReqs :
          sess_req[r].pc = "held" /\ sess_req[r].session > PrewarmCount + 1

\* C38: no release moves the end of an account's cooldown back: after
\* release(account, success, status_code) the account's rate_limited_until
\* is at least what it was before the call, whatever the order in which
\* concurrent requests release.
C38_ReleaseNeverShortens ==
    [][\A a \in Accts :
          accounts'[a].rate_limited_until >= accounts[a].rate_limited_until]_vars

\* C36: while a build for key k that Coalescer.do started is running, the
\* in-flight map holds that build's task under k: the pops of an earlier,
\* finished call for k never remove the registration of a newer build.
C36_RunningBuildIsRegistered ==
    \A t \in Procs :
        task[t].state = "running" => in_flight[task[t].key] = t


\* C37: the L1 entry of a key never regresses: no SET replaces the envelope
\* under a key by the result of a build that started before the build whose
\* result the key holds (builds are numbered in the order they start).
C37_L1NeverRegresses ==
    [][\A k \in CacheKeys :
          (l1[k].has /\ l1'[k].has) => l1'[k].data.n >= l1[k].data.n]_vars


\* C35: a request that passes the health check of a client with a pool
\* attached is sent with a credential that is neither expired nor exhausted:
\* an expired or exhausted one has been replaced by one taken from the pool
\* or minted inline.
C35_CallUsesFreshCredential ==
    [][\A u \in Fetchers :
          (fetch[u].pc = "fetching" /\ fetch'[u].pc = "sending") =>
             LET c == token_sets'[fetch'[u].client_ts]
             IN  /\ ~(pool_now - c.created_at > GUEST_TOKEN_TTL)
                 /\ ~(c.request_count >= MAX_REQUESTS_PER_TOKEN)]_vars


\* How often session s occurs in the buckets of the SessionPool, and in the
\* buckets of the accounts.
TimesPooled(s) ==
    Cardinality({e \in (DOMAIN buckets) \X (1..SESSION_POOL_SIZE + 1) :
                    e[2] <= Len(buckets[e[1]]) /\ buckets[e[1]][e[2]] = s})
TimesKept(s) ==
    Cardinality({e \in Accts \X (1..MAX_SESSIONS_PER_ACCOUNT + 1) :
                    /\ e[2] <= Len(accounts[e[1]]._sessions)
                    /\ accounts[e[1]]._sessions[e[2]] = s})

\* C39: a session is held by at most one user at a time: a session that
\* acquire returned is in no bucket and held by no other request until it is
\* released, no session is in the buckets twice, and a session closed by a
\* full bucket or by close_all is in no bucket, so no later acquire returns
\* it.
C39_OneHolderPerSession ==
    /\ \A r, q \in SessReqs :
          (sess_req[r].pc = "held" /\ sess_req[q].pc = "held"
             /\ sess_req[r].session = sess_req[q].session) => r = q
    /\ \A s \in 1..Len(sessions) :
          /\ TimesPooled(s) <= 1
          /\ (\E r \in SessReqs : sess_req[r].pc = "held"
                                  /\ sess_req[r].session = s)
                => TimesPooled(s) = 0 /\ ~sessions[s].closed
          /\ sessions[s].closed => TimesPooled(s) = 0
    /\ \A r, q \in AcctReqs :
          (acct_req[r].pc = "held" /\ acct_req[q].pc = "held"
             /\ acct_req[r].session = acct_req[q].session) => r = q
    /\ \A s \in 1..Len(acct_sess) :
          /\ TimesKept(s) <= 1
          /\ (\E r \in AcctReqs : acct_req[r].pc = "held"
                                  /\ acct_req[r].session = s)
                => TimesKept(s) = 0 /\ ~acct_sess[s].closed
          /\ acct_sess[s].closed => TimesKept(s) = 0

\* After close_all closed the pooled sessions, a request holds a session
\* that came out of a bucket, where a release after close_all had put it.
C39_Witness ==
    /\ shut_down
    /\ Closed(sessions) # {}
    /\ \E r \in SessReqs :
          /\ sess_req[r].pc = "held" /\ sess_req[r].warm
          /\ sess_req[r].session > PrewarmCount

\* C31: once the shutdown of lifespan has completed, every bucket of the
\* SessionPool and of the accounts is empty and every session that is not
\* in a request's hands is closed, those released after close_all included.
C31_TeardownClosesAll ==
    shut_down =>
        /\ \A k \in DOMAIN buckets : buckets[k] = <<>>
        /\ \A s \in 1..Len(sessions) :
              sessions[s].closed
                  \/ \E r \in SessReqs : sess_req[r].pc = "held"
                                         /\ sess_req[r].session = s
        /\ \A a \in Accts : accounts[a]._sessions = <<>>
        /\ \A s \in 1..Len(acct_sess) :
              acct_sess[s].closed
                  \/ \E r \in AcctReqs : acct_req[r].pc = "held"
                                         /\ acct_req[r].session = s


\* C32: generate never derives a token from material older than TXN_TTL: a
\* call that found the material missing or of age >= TXN_TTL returns a token
\* only from material fetched after the call began, and none when the
\* re-fetch failed.
C32_TokenFromFreshMaterial ==
    \A t \in GenThreads :
        (gen[t].pc = "done" /\ gen[t].call = "generate" /\ gen[t].stale)
            => gen[t].used > gen[t].saw

\* C40: at most one initialisation of the material runs at a time, the
\* background thread's or a caller's: callers that find the material missing
\* or older than TXN_TTL while one runs use its result.
C40_OneInitAtATime ==
    Cardinality({t \in GenThreads : gen[t].pc = "fetching"})
        + (IF txn.bg = "running" THEN 1 ELSE 0) <= 1

\* How often event e occurs in the buffers and in the batches.
TimesBuffered(e) ==
    Cardinality({i \in 1..Len(writer.tweet_buffer) :
                    writer.tweet_buffer[i] = e})
        + Cardinality({i \in 1..Len(writer.query_buffer) :
                          writer.query_buffer[i] = e})
TimesBatched(e) ==
    Cardinality({p \in (1..Len(writer.batches)) \X (1..MaxEvents) :
                    /\ p[2] <= Len(writer.batches[p[1]].events)
                    /\ writer.batches[p[1]].events[p[2]] = e})

\* C33: once close() has returned, no event that was accepted is left in a
\* buffer: the final flush has put into a batch whatever was enqueued before
\* and during it, and later enqueues are no-ops.
C33_CloseLeavesNothingBuffered ==
    writer.closer = "closed" =>
        /\ writer.tweet_buffer = <<>>
        /\ writer.query_buffer = <<>>
        /\ ~writer.available

\* C34: a flush copies and clears a buffer in one step of the event loop:
\* every event enqueued while the writer was available is either still in
\* its buffer or in exactly one batch, never in two batches and never in
\* none, however enqueues and flushes interleave; an event enqueued while
\* the writer was not available is in neither.
C34_EachEventInOneBatch ==
    \A e \in 1..writer.nevents :
        TimesBuffered(e) + TimesBatched(e) = IF e \in writer.accepted THEN 1 ELSE 0

\* Two batches of tweets have been made, the insert of the second is in
\* progress, and a tweet enqueued since waits in the buffer.
C34_Witness ==
    /\ Len(writer.batches) >= 2
    /\ writer.batches[1].kind = "tweet" /\ writer.batches[1].status = "sent"
    /\ writer.batches[2].kind = "tweet" /\ writer.batches[2].status = "inflight"
    /\ writer.tweet_buffer # <<>>

====
